---- MODULE Spec2Model ----
(***************************************************************************)
(* State-machine model of src/server/ua_server.c of open62541: the server  *)
(* lifecycle (run_startup / run_iterate / run_shutdown / UA_Server_run),   *)
(* the delayed-shutdown logic, the namespace registry, the reverse         *)
(* connects, the certificate rotation and the use of the service mutex.    *)
(*                                                                         *)
(* Times are UA_DateTime values (100 ns units).  The event loop, the URL   *)
(* parser and the ns0 writers live outside ua_server.c; they are modelled  *)
(* by their interface (status results are inputs of the calling action).   *)
(***************************************************************************)
EXTENDS Integers, Sequences, FiniteSets, TLC

VARIABLES
    \* ---- UA_Server fields -------------------------------------------------
    state,                  \* server->state (UA_ServerLifecycle)
    houseKeepingCallbackId, \* server->houseKeepingCallbackId
    startTime,              \* server->startTime
    endTime,                \* server->endTime
    namespaces,             \* server->namespaces[0 .. namespacesSize-1], 1-based here
    serverArray,            \* value of the ns0 ServerArray node
    \* ---- UA_ServerConfig --------------------------------------------------
    applicationUri,         \* config.applicationDescription.applicationUri
    shutdownDelay,          \* config.shutdownDelay (ms)
    serverUrls,             \* config.serverUrls
    externalEventLoop,      \* config.externalEventLoop
    discoveryUrls,          \* config.applicationDescription.discoveryUrls
    \* ---- event loop (config.eventLoop) and its connection managers ---------
    elState,                \* eventLoop->state
    cyclic,                 \* registered cyclic callbacks: set of [id, next]
    elLastId,               \* last callback id handed out by the event loop
    listeners,              \* number of listening connections opened so far
    openCalls,              \* per listen url of the run_startup just made:
                            \* the url, the status of
                            \* UA_Server_createServerConnection and the
                            \* openConnection calls it made
    \* ---- environment ------------------------------------------------------
    now,                    \* UA_DateTime_now() / UA_DateTime_nowMonotonic()
    running,                \* the caller's *running flag of UA_Server_run
    \* ---- UA_Server_run: position of the caller ------------------------------
    runPc,                  \* idle | test | iterate | check | shutdown | done
    runRet,                 \* status returned by UA_Server_run
    \* ---- what the caller observes -----------------------------------------
    phase,                  \* fresh | started | stopped, by the calls that returned
    lastOp,                 \* the public call that returned last
    lastRes,                \* its status code
    lastRet,                \* its numeric result (index, milliseconds)
    lastArg,                \* its URI argument
    lastUri,                \* its URI result
    addLog,                 \* the addNamespace calls [name, ret], while they
                            \* follow the growth scenario
    oobRead,                \* a slot outside the namespace table has been read
    startupCalls,           \* number of run_startup calls so far
    shutdownRequested,      \* setServerShutdown has been called
    firstRequest,           \* time of the first setServerShutdown call (0: none)
    shutdownCalls,          \* run_shutdown calls made by the current UA_Server_run
    \* ---- reverse connects -------------------------------------------------
    reverseConnects,        \* server->reverseConnects: entry ids, head first
    rc,                     \* the reverse_connect_context objects, by id
    lastReverseConnectHandle, \* server->lastReverseConnectHandle
    reverseConnectsCheckHandle, \* id of the retry cyclic callback (0: none)
    delayed,                \* entries with a pending delayed free callback
    conns,                  \* transport connections: [id, ctx, phase]
    lastConnId,             \* last connection id handed out by the transport
    rcObs,                  \* accesses to freed entries seen so far
    stateCallbacks,         \* the stateCallback invocations [handle, state]
                            \* made by the last reverse-connect step
    \* ---- sessions, channels, certificates ---------------------------------
    sessions,               \* server->sessions: [channel], head first
    channels,               \* server->channels: [securityPolicy, state]
    endpoints,              \* config.endpoints: [serverCertificate,
                            \* securityPolicyUri]
    securityPolicies,       \* config.securityPolicies: [policyUri,
                            \* localCertificate]
    \* ---- threads ----------------------------------------------------------
    serviceMutex,           \* server->serviceMutex: 0 or the holding thread
    thr,                    \* position of each thread inside a public call
    drain                   \* the shutdown or delete call in progress: [op,
                            \* pc, res], res the last result of run()

vars == << state, houseKeepingCallbackId, startTime, endTime, namespaces,
           serverArray, applicationUri, shutdownDelay, serverUrls,
           externalEventLoop, discoveryUrls, elState, cyclic, elLastId, listeners,
           openCalls, now, running,
           runPc, runRet, phase, lastOp, lastRes, lastRet, lastArg, lastUri, addLog,
           oobRead, startupCalls, shutdownRequested, firstRequest,
           shutdownCalls, reverseConnects, rc, lastReverseConnectHandle,
           reverseConnectsCheckHandle, delayed, conns, lastConnId, rcObs,
           stateCallbacks,
           sessions, channels, endpoints, securityPolicies,
           serviceMutex, thr, drain >>

serverVars == << state, houseKeepingCallbackId, startTime, endTime >>
nsVars     == << namespaces, serverArray >>
configVars == << applicationUri, shutdownDelay, serverUrls, externalEventLoop >>
elVars     == << elState, cyclic, elLastId, listeners >>
runVars    == << runPc, runRet, shutdownCalls >>
reqVars    == << shutdownRequested, firstRequest >>
nsObsVars  == << addLog, oobRead >>
rcVars     == << reverseConnects, rc, lastReverseConnectHandle,
                 reverseConnectsCheckHandle, delayed, conns, lastConnId,
                 rcObs, stateCallbacks >>
certKeep   == << sessions, endpoints, securityPolicies >>
certVars   == << sessions, channels, endpoints, securityPolicies >>
thrVars    == << serviceMutex, thr, drain >>

----------------------------------------------------------------------------
(* Bounds of the model *)

MaxTicks == 3       \* instants after the first one the clock can show
MaxStartups == 2    \* run_startup calls per behaviour
MaxNs == 5          \* entries of the namespace table
MaxRuns == 2        \* UA_Server_run calls per behaviour
MaxReverseConnects == 2   \* reverse-connect entries allocated per behaviour
MaxConns == 2       \* transport connections opened for reverse connects
MaxCallbacks == 2   \* cyclic callback ids handed out to the reverse connects
MaxSessions == 2    \* entries of the session list
MaxChannels == 2    \* secure channels opened per behaviour
MaxThreads == 2     \* threads calling into the server

(* Program constants *)

UA_MAXTIMEOUT == 50
UA_DATETIME_MSEC == 10000
UA_SERVERLIFECYCLE_FRESH == 0
HouseKeepingInterval == 1000

----------------------------------------------------------------------------
(* Values *)

GOOD == "Good"
BADNOTFOUND == "BadNotFound"
BADINTERNALERROR == "BadInternalError"
BADOUTOFMEMORY == "BadOutOfMemory"
BADTCPENDPOINTURLINVALID == "BadTcpEndpointUrlInvalid"

Ns0Uri == "http://opcfoundation.org/UA/"
UA_STRING_NULL == ""

\* The instants the clock shows: pairs of instants one run(50) apart, the
\* pairs one housekeeping period apart
T0 == 250 * UA_DATETIME_MSEC
Instant(k) ==
    T0 + ((k \div 2) * 1000 + (k % 2) * 50) * UA_DATETIME_MSEC
Instants == {Instant(k) : k \in 0..MaxTicks}

\* ... and, while a shutdown deadline is pending, the instant right after it
ClockInstants ==
    Instants \cup (IF endTime # 0
                     THEN {endTime + UA_MAXTIMEOUT * UA_DATETIME_MSEC}
                     ELSE {})

Min(S) == CHOOSE x \in S : \A y \in S : x <= y

\* C integer division truncates toward zero
TruncDiv(a, b) == IF a >= 0 THEN a \div b ELSE -((-a) \div b)

\* conversion of a signed 64-bit value to UA_UInt16
ToUInt16(x) == x % 65536

----------------------------------------------------------------------------
(* Configuration values the model draws from *)

AppUris == {UA_STRING_NULL, "urn:app"}
ShutdownDelays == {0, 500}

Url(valid, host, port) == [valid |-> valid, host |-> host, port |-> port]
DefaultUrl == Url(TRUE, "", 4840)          \* "opc.tcp://:4840"
ServerUrlConfigs ==
    { << >>,
      << Url(FALSE, "", 0) >>,
      << Url(TRUE, "h1", 4840) >>,
      << Url(FALSE, "", 0), Url(TRUE, "h2", 4841) >> }

\* eventLoop->eventSources, in list order
EventSources ==
    << [type |-> "CONNECTIONMANAGER", protocol |-> "tcp"],
       [type |-> "INTERRUPTMANAGER",  protocol |-> ""],
       [type |-> "CONNECTIONMANAGER", protocol |-> "udp"],
       [type |-> "CONNECTIONMANAGER", protocol |-> "tcp"] >>

TcpManagers ==
    { i \in 1..Len(EventSources) :
        /\ EventSources[i].type = "CONNECTIONMANAGER"
        /\ EventSources[i].protocol = "tcp" }

\* the tcp connection managers in event-source order
TcpOrder ==
    SelectSeq([i \in 1..Len(EventSources) |-> i],
              LAMBDA i : i \in TcpManagers)

\* what openConnection of each tcp manager answers, if it is asked
OpenResults == [TcpManagers -> {GOOD, BADINTERNALERROR}]

----------------------------------------------------------------------------
(* Event loop interface *)

\* addCyclicCallback: a fresh id, first deadline one interval from now
AddCyclicCallback(cyc, id, t, intervalMs) ==
    cyc \cup {[id |-> id, next |-> t + intervalMs * UA_DATETIME_MSEC]}

\* removeCyclicCallback
RemoveCyclicCallback(cyc, id) == {c \in cyc : c.id # id}

\* run(): callbacks that are due fire and are rescheduled from the current
\* time (UA_TIMER_HANDLE_CYCLEMISS_WITH_CURRENTTIME)
ProcessCyclic(cyc, t) ==
    { IF c.next <= t
        THEN [c EXCEPT !.next = t + HouseKeepingInterval * UA_DATETIME_MSEC]
        ELSE c : c \in cyc }

RegisteredIds == {c.id : c \in cyclic}

----------------------------------------------------------------------------
(* Namespace registry *)

\* (mutant) setupNs1Uri that never copies the application URI
SkipNs1Uri(ns, appUri) == ns

\* setupNs1Uri: fill slot 1 (index 2 of the 1-based sequence) if it is null
SetupNs1Uri(ns, appUri) ==
    IF ns[2] = UA_STRING_NULL THEN [ns EXCEPT ![2] = appUri] ELSE ns

----------------------------------------------------------------------------
(* Listener fan-out *)

\* The loop over the event sources of UA_Server_createServerConnection,
\* from source i on.  calls: the sources whose openConnection was called.
RECURSIVE FanOut(_, _, _)
FanOut(i, open, calls) ==
    IF i > Len(EventSources)
      THEN [res |-> BADINTERNALERROR, calls |-> calls]
    ELSE IF EventSources[i].type # "CONNECTIONMANAGER"
      THEN FanOut(i + 1, open, calls)
    ELSE IF EventSources[i].protocol # "tcp"
      THEN FanOut(i + 1, open, calls)
    ELSE IF open[i] = GOOD
      THEN [res |-> GOOD, calls |-> Append(calls, [cm |-> i, res |-> GOOD])]
    ELSE FanOut(i + 1, open, Append(calls, [cm |-> i, res |-> open[i]]))

\* (mutant) a fan-out that asks every tcp manager, whatever the earlier
\* ones answered
CreateServerConnectionOnAll(url, open) ==
    IF ~url.valid
      THEN [res |-> BADTCPENDPOINTURLINVALID, calls |-> << >>]
      ELSE [res |-> IF \E i \in TcpManagers : open[i] = GOOD
                      THEN GOOD ELSE BADINTERNALERROR,
            calls |-> [k \in 1..Len(TcpOrder) |->
                         [cm |-> TcpOrder[k], res |-> open[TcpOrder[k]]]]]

UA_Server_createServerConnection(url, open) ==
    IF ~url.valid
      THEN [res |-> BADTCPENDPOINTURLINVALID, calls |-> << >>]
      ELSE FanOut(1, open, << >>)

----------------------------------------------------------------------------
(* Reverse connects: entries, retry callback, connect attempts *)

GOODCOMPLETESASYNCHRONOUSLY == "GoodCompletesAsynchronously"

RcIds == 1..MaxReverseConnects

\* a reverse_connect_context that has not been allocated yet.  frees counts
\* the free() calls on the entry (capped at 2), freedBy names the first one.
NoEntry ==
    [used |-> FALSE, handle |-> 0, state |-> "CLOSED", connectionId |-> 0,
     destruction |-> FALSE, frees |-> 0, freedBy |-> "none",
     removed |-> FALSE]

NoRcObs ==
    [uafImmediate |-> FALSE, uafDeferred |-> FALSE, uafShutdown |-> FALSE,
     dangling |-> FALSE]

Allocated == {e \in RcIds : rc[e].used}
Listed == {reverseConnects[i] : i \in 1..Len(reverseConnects)}

\* free(entry)
Free(ent, by) ==
    [ent EXCEPT !.frees = IF @ < 2 THEN @ + 1 ELSE 2,
                !.freedBy = IF @ = "none" THEN by ELSE @]

\* period of the retry callback (1 Hz)
RetryIntervalMs == 1000

\* setReverseConnectRetryCallback(server, enabled): the retry callback id,
\* the cyclic callbacks and the last callback id of the event loop it leaves
SetReverseConnectRetryCallback(enabled, h, cyc, last) ==
    IF enabled /\ h = 0
      THEN [h |-> last + 1,
            cyc |-> AddCyclicCallback(cyc, last + 1, now, RetryIntervalMs),
            last |-> last + 1]
    ELSE IF ~enabled /\ h # 0
      THEN [h |-> 0, cyc |-> RemoveCyclicCallback(cyc, h), last |-> last]
    ELSE [h |-> h, cyc |-> cyc, last |-> last]

\* context->stateCallback(server, context->handle, state, ...)
StateCallback(ent, newState) == [handle |-> ent.handle, state |-> newState]

\* setReverseConnectState(server, context, newState): the entry and the
\* state callbacks invoked; no callback without a change of state
SetReverseConnectState(ent, newState) ==
    [ent |-> [ent EXCEPT !.state = newState],
     cbs |-> IF ent.state = newState THEN << >>
             ELSE << StateCallback(ent, newState) >>]

\* (mutant) a handle counter that is not advanced once it is non-zero
IssueHandleStuck(last) == IF last = 0 THEN 1 ELSE last

\* ++server->lastReverseConnectHandle (line 689)
IssueHandle(last) == last + 1

\* attemptReverseConnect, from event source i on.  st: the entry, the
\* transport connections, the last connection id, the status so far, the
\* connection managers whose openConnection was called and the state
\* callbacks invoked.
RECURSIVE AttemptFrom(_, _, _, _)
AttemptFrom(i, e, open, st) ==
    IF i > Len(EventSources) THEN st
    ELSE IF EventSources[i].type # "CONNECTIONMANAGER"
      THEN AttemptFrom(i + 1, e, open, st)
    ELSE IF EventSources[i].protocol # "tcp"
      THEN AttemptFrom(i + 1, e, open, st)
    ELSE IF elState # "STARTED"
      THEN [st EXCEPT !.res = GOODCOMPLETESASYNCHRONOUSLY]
    ELSE
      LET ok == open[i] = GOOD
          c == st.lastConnId + 1
          failed == IF ok THEN st.ent
                    ELSE [st.ent EXCEPT !.connectionId = 0]
          ent == [failed EXCEPT !.state = "CONNECTING"]
      IN AttemptFrom(i + 1, e, open,
           [ent |-> ent,
            conns |-> IF ok
                        THEN st.conns \cup
                               {[id |-> c, ctx |-> e, phase |-> "opening"]}
                        ELSE st.conns,
            lastConnId |-> IF ok THEN c ELSE st.lastConnId,
            res |-> open[i],
            calls |-> Append(st.calls, i),
            cbs |-> IF failed.state # "CONNECTING"
                      THEN Append(st.cbs, StateCallback(failed, "CONNECTING"))
                      ELSE st.cbs])

\* an attempt that moves the entry to connecting without looking at the
\* connection manager
attemptUnconditionally(e, ent, open, cs, last) ==
    [ent |-> [ent EXCEPT !.state = "CONNECTING"], conns |-> cs,
     lastConnId |-> last, res |-> GOODCOMPLETESASYNCHRONOUSLY,
     calls |-> << >>, cbs |-> << StateCallback(ent, "CONNECTING") >>]

\* attemptReverseConnect (lines 617-664) on entry e, given the transport
\* connections cs and the last connection id
attemptReverseConnect(e, ent, open, cs, last) ==
    AttemptFrom(1, e, open,
                [ent |-> ent, conns |-> cs, lastConnId |-> last,
                 res |-> BADINTERNALERROR, calls |-> << >>,
                 cbs |-> << >>])

\* the callbacks cbs(e) of the listed entries, from list position k on
RECURSIVE ListedCallbacks(_, _)
ListedCallbacks(k, cbs) ==
    IF k > Len(reverseConnects) THEN << >>
    ELSE cbs[reverseConnects[k]] \o ListedCallbacks(k + 1, cbs)

\* The reverse-connect part of UA_Server_run_shutdown (lines 943-953 and
\* 985-992).  ran: the event loop was run by the call; stopped: it was
\* driven to the stopped state; confirmed: the connections whose close
\* callback was delivered while the loop ran.
ShutdownClosing ==
    {c.id : c \in {d \in conns :
        \/ d.phase = "closing"
        \/ \E e \in Listed : rc[e].connectionId = d.id}}

ShutdownReverseConnects(ran, stopped, confirmed) ==
    LET closed(e) ==
            SetReverseConnectState([rc[e] EXCEPT !.destruction = TRUE],
                                   "CLOSED")
        marked(e) == IF e \in Listed THEN closed(e).ent ELSE rc[e]
        conns1 == {IF c.id \in ShutdownClosing
                     THEN [c EXCEPT !.phase = "closing"] ELSE c : c \in conns}
        conns2 == IF stopped THEN {}
                  ELSE {c \in conns1 : c.id \notin confirmed}
        delivered == {c \in conns : \A d \in conns2 : d.id # c.id}
        fired == IF ran THEN delayed ELSE {}
    IN
    /\ confirmed \subseteq ShutdownClosing
    /\ ~ran => confirmed = {}
    /\ rc' = [e \in RcIds |->
                LET d == IF e \in fired THEN Free(marked(e), "delayed")
                         ELSE marked(e)
                IN IF e \in Listed THEN Free(d, "shutdown") ELSE d]
    /\ conns' = conns2
    /\ delayed' = delayed \ fired
    /\ rcObs' =
         [rcObs EXCEPT
            !.dangling = @ \/ \E e \in Listed : rc[e].frees > 0,
            !.uafImmediate =
               @ \/ \E c \in delivered : rc[c.ctx].freedBy = "remove",
            !.uafDeferred =
               @ \/ \E c \in delivered : rc[c.ctx].freedBy = "delayed",
            !.uafShutdown =
               @ \/ \E c \in delivered : rc[c.ctx].freedBy = "shutdown"]
    /\ stateCallbacks' = ListedCallbacks(1, [e \in RcIds |-> closed(e).cbs])
    /\ UNCHANGED << reverseConnects, lastReverseConnectHandle, lastConnId >>

----------------------------------------------------------------------------
(* Sessions, secure channels, endpoints and security policies *)

Certs == {"certA", "certB"}              \* certificates, as byte strings
PolicyUris == {"P1", "P2"}               \* config.securityPolicies[i].policyUri
EndpointUris == PolicyUris \cup {"P3"}   \* "P3": a URI no policy carries

\* a configuration with one policy and one endpoint
DefaultPolicies == << [policyUri |-> "P1", localCertificate |-> "certA"] >>
DefaultEndpoints ==
    << [serverCertificate |-> "certA", securityPolicyUri |-> "P1"] >>

\* config.securityPolicies: the two policies with any certificates
PolicyConfigs ==
    { << [policyUri |-> "P1", localCertificate |-> c1],
         [policyUri |-> "P2", localCertificate |-> c2] >> :
        c1 \in Certs, c2 \in Certs }

Endpoint == [serverCertificate : Certs, securityPolicyUri : EndpointUris]

\* config.endpoints: two endpoint descriptions
EndpointConfigs ==
    { << e1, e2 >> : e1 \in { e \in Endpoint : e.securityPolicyUri # "P2" },
                     e2 \in { e \in Endpoint : e.securityPolicyUri # "P1" } }

\* channel->securityPolicy->localCertificate
ChannelCert(ch) == securityPolicies[ch.securityPolicy].localCertificate

\* session.header.channel->securityPolicy->localCertificate
SessionCert(s) == ChannelCert(channels[s.channel])

\* the elements of s at the positions in K, in order
RECURSIVE KeepFrom(_, _, _)
KeepFrom(i, s, K) ==
    IF i > Len(s) THEN << >>
    ELSE (IF i \in K THEN << s[i] >> ELSE << >>) \o KeepFrom(i + 1, s, K)

\* The session loop of UA_Server_updateCertificate: LIST_FOREACH, which
\* reads the link of the current entry after the body has removed that
\* entry from the list.  stop = 0: every such read finds the old link and
\* the loop visits all sessions.  stop = k > 0: the read after the removal
\* of the k-th session yields NULL and the loop ends there (it has no
\* effect when the k-th session does not match and stays in the list).
SessionLoop(old, stop) ==
    KeepFrom(1, sessions,
             { i \in DOMAIN sessions :
                 \/ SessionCert(sessions[i]) # old
                 \/ /\ stop > 0
                    /\ i > stop
                    /\ SessionCert(sessions[stop]) = old })

\* where the session loop can end early: at a removed session that is not
\* the last one
StopPoints(old) ==
    {0} \cup { k \in 1 .. Len(sessions) - 1 : SessionCert(sessions[k]) = old }

\* shutdownServerSecureChannel: the channel is closing from now on
ShutdownChannel(ch) == [ch EXCEPT !.state = "CLOSING"]

\* a channel loop that shuts down every channel, whatever its certificate
ChannelLoopAll(old) ==
    [i \in DOMAIN channels |-> ShutdownChannel(channels[i])]

\* The channel loop of UA_Server_updateCertificate
ChannelLoop(old) ==
    [i \in DOMAIN channels |->
       IF ChannelCert(channels[i]) = old THEN ShutdownChannel(channels[i])
       ELSE channels[i]]

\* UA_Server_deleteSecureChannels: every channel is shut down
DeleteSecureChannels == [i \in DOMAIN channels |-> ShutdownChannel(channels[i])]

\* getSecurityPolicyByUri: index of the first policy with the URI, 0 for NULL
getSecurityPolicyByUri(pols, uri) ==
    IF \E i \in DOMAIN pols : pols[i].policyUri = uri
      THEN CHOOSE i \in DOMAIN pols :
             /\ pols[i].policyUri = uri
             /\ \A j \in DOMAIN pols : pols[j].policyUri = uri => i <= j
      ELSE 0

\* The endpoint loop of UA_Server_updateCertificate from endpoint i on;
\* st = [endpoints, securityPolicies, res]
RECURSIVE EndpointLoop(_, _, _, _)
EndpointLoop(i, st, old, new) ==
    IF i > Len(st.endpoints) THEN st
    ELSE IF st.endpoints[i].serverCertificate # old
      THEN EndpointLoop(i + 1, st, old, new)
      ELSE LET eps == [st.endpoints EXCEPT ![i].serverCertificate = new]
               sp == getSecurityPolicyByUri(st.securityPolicies,
                                            eps[i].securityPolicyUri)
           IN IF sp = 0
                THEN [st EXCEPT !.endpoints = eps, !.res = BADINTERNALERROR]
                ELSE EndpointLoop(
                       i + 1,
                       [st EXCEPT !.endpoints = eps,
                                  !.securityPolicies[sp].localCertificate = new],
                       old, new)

----------------------------------------------------------------------------
(* Threads and the service mutex *)

Threads == 1 .. MaxThreads

\* no shutdown or delete call is in progress
NoDrain == [op |-> "none", pc |-> "idle", res |-> GOOD]

\* a thread outside the server
Idle == [op |-> "none", pc |-> 0]

\* One step of a public call: taking or releasing server->serviceMutex, or
\* an access to a piece of server-owned state
Lock == [k |-> "lock", obj |-> "serviceMutex"]
Unlock == [k |-> "unlock", obj |-> "serviceMutex"]
Read(o) == [k |-> "read", obj |-> o]
Write(o) == [k |-> "write", obj |-> o]

\* The steps of each public call, in program order, along the path on which
\* every access of the function happens (a matching entry is found, the
\* list is empty where emptiness is tested).

\* UA_Server_addNamespace
addNamespaceSteps == << Lock, Write("namespaces"), Unlock >>

\* UA_Server_getNamespaceByName
getNamespaceByNameSteps == << Lock, Read("namespaces"), Unlock >>

\* UA_Server_addReverseConnect: SLIST_EMPTY, setReverseConnectRetryCallback,
\* ++lastReverseConnectHandle, SLIST_INSERT_HEAD
addReverseConnectSteps ==
    << Read("reverseConnects"), Write("reverseConnectsCheckHandle"),
       Write("lastReverseConnectHandle"), Write("reverseConnects") >>

\* UA_Server_removeReverseConnect: SLIST_FOREACH_SAFE, SLIST_REMOVE,
\* SLIST_EMPTY, setReverseConnectRetryCallback
removeReverseConnectSteps ==
    << Read("reverseConnects"), Write("reverseConnects"),
       Read("reverseConnects"), Write("reverseConnectsCheckHandle") >>

\* UA_Server_updateCertificate: LIST_FOREACH with the locked removal of one
\* session, TAILQ_FOREACH with the shutdown of one channel, the endpoints
updateCertificateSteps ==
    << Read("sessions"), Lock, Write("sessions"), Unlock, Read("sessions"),
       Read("channels"), Write("channels"), Write("endpoints") >>

\* UA_Server_run_startup: the housekeeping callback (registered through
\* UA_Server_addRepeatedCallback, which locks), the listener slots, the
\* start time, the lifecycle state
run_startupSteps ==
    << Read("houseKeepingCallbackId"), Lock, Write("houseKeepingCallbackId"),
       Unlock, Write("serverConnections"), Write("startTime"),
       Write("state") >>

\* UA_Server_run_shutdown: the housekeeping id passed to
\* UA_Server_removeCallback (which locks around the event loop call), the
\* housekeeping id, the reverse connects, the channels, the final free loop
run_shutdownSteps ==
    << Read("houseKeepingCallbackId"), Lock, Unlock,
       Write("houseKeepingCallbackId"), Read("reverseConnects"),
       Write("channels"), Write("reverseConnects") >>

PublicCalls == {"addNamespace", "getNamespaceByName", "addReverseConnect",
                "removeReverseConnect", "updateCertificate", "run_startup",
                "run_shutdown"}

Steps(op) ==
    CASE op = "addNamespace" -> addNamespaceSteps
      [] op = "getNamespaceByName" -> getNamespaceByNameSteps
      [] op = "addReverseConnect" -> addReverseConnectSteps
      [] op = "removeReverseConnect" -> removeReverseConnectSteps
      [] op = "updateCertificate" -> updateCertificateSteps
      [] op = "run_startup" -> run_startupSteps
      [] op = "run_shutdown" -> run_shutdownSteps
      [] OTHER -> << >>

----------------------------------------------------------------------------
(* Construction: UA_Server_newWithConfig + UA_Server_init *)

\* The server after UA_Server_newWithConfig, for a configuration with the
\* security policies pols and the endpoints eps
ServerInit(pols, eps) ==
    /\ state = UA_SERVERLIFECYCLE_FRESH        \* calloc
    /\ houseKeepingCallbackId = 0              \* calloc
    /\ startTime = 0
    /\ endTime = 0                             \* calloc
    /\ namespaces = << Ns0Uri, UA_STRING_NULL >>
    /\ serverArray = << >>
    /\ applicationUri \in AppUris
    /\ shutdownDelay \in ShutdownDelays
    /\ serverUrls \in ServerUrlConfigs
    /\ externalEventLoop \in BOOLEAN
    /\ discoveryUrls = << >>
    /\ elState = "FRESH"
    /\ cyclic = {}
    /\ elLastId = 0
    /\ listeners = 0
    /\ openCalls = << >>
    /\ now = T0
    /\ running = TRUE
    /\ runPc = "idle"
    /\ runRet = GOOD
    /\ phase = "fresh"
    /\ lastOp = "new"
    /\ lastRes = GOOD
    /\ lastRet = 0
    /\ lastArg = UA_STRING_NULL
    /\ lastUri = UA_STRING_NULL
    /\ addLog = << >>
    /\ oobRead = FALSE
    /\ startupCalls = 0
    /\ shutdownRequested = FALSE
    /\ firstRequest = 0
    /\ shutdownCalls = 0
    /\ reverseConnects = << >>
    /\ rc = [e \in RcIds |-> NoEntry]
    /\ lastReverseConnectHandle = 0
    /\ reverseConnectsCheckHandle = 0
    /\ delayed = {}
    /\ conns = {}
    /\ lastConnId = 0
    /\ rcObs = NoRcObs
    /\ stateCallbacks = << >>
    /\ sessions = << >>                        \* LIST_INIT
    /\ channels = << >>                        \* TAILQ_INIT
    /\ endpoints = eps
    /\ securityPolicies = pols
    /\ serviceMutex = 0                        \* UA_LOCK_INIT
    /\ thr = [t \in Threads |-> Idle]
    /\ drain = NoDrain

Init == ServerInit(DefaultPolicies, DefaultEndpoints)

----------------------------------------------------------------------------
(* UA_Server_run_startup *)

\* the urls run_startup opens listeners for
ListenUrls == IF Len(serverUrls) = 0 THEN << DefaultUrl >> ELSE serverUrls

\* the server urls that are added to the discovery urls
AdvertisedUrls ==
    SelectSeq(serverUrls, LAMBDA u : u.valid /\ u.host # "")

FailPoints == {"none", "start", "serverArray", "verifyUri", "discoveryUrl"}

\* The state field run_startup leaves behind on success (line 897)
StartupLifecycle == UA_SERVERLIFECYCLE_FRESH

\* (mutant) run_startup without the sampling of the start time
KeepStartTime == startTime

\* The start time run_startup samples (line 858)
SampleStartTime == now

\* The housekeeping registration of run_startup (lines 783-786): the new
\* [id, cyclic set, last id] of the server and the event loop
RegisterHouseKeeping ==
    IF houseKeepingCallbackId = 0
      THEN [id |-> elLastId + 1,
            cyc |-> AddCyclicCallback(cyclic, elLastId + 1, now,
                                      HouseKeepingInterval),
            last |-> elLastId + 1]
      ELSE [id |-> houseKeepingCallbackId, cyc |-> cyclic, last |-> elLastId]

\* The whole of UA_Server_run_startup.  failAt: the call that reports an
\* error in this run (none: all succeed); opens: per listen url, what each
\* tcp manager's openConnection answers.  lastRes' is the returned status.
StartupBody(failAt, opens) ==
    LET hk == RegisterHouseKeeping
        needStart == elState # "STARTED"
        conn(i) == UA_Server_createServerConnection(ListenUrls[i], opens[i])
        opened == Cardinality({i \in 1..Len(ListenUrls) : conn(i).res = GOOD})
        past == state > UA_SERVERLIFECYCLE_FRESH
    IN
    /\ failAt = "start" => needStart
    /\ failAt = "discoveryUrl" => Len(AdvertisedUrls) > 0
    /\ failAt \in {"verifyUri", "discoveryUrl"} => ~past
    /\ startupCalls' = startupCalls + 1
    /\ houseKeepingCallbackId' = hk.id
    /\ cyclic' = hk.cyc
    /\ elLastId' = hk.last
    /\ IF failAt = "start"
         THEN \* eventLoop->start failed (line 795)
              /\ lastRes' = BADINTERNALERROR
              /\ openCalls' = << >>
              /\ UNCHANGED << state, startTime, namespaces, serverArray,
                              discoveryUrls, elState, listeners >>
         ELSE
           /\ elState' = "STARTED"
           /\ listeners' = listeners + opened
           /\ openCalls' = [i \in 1..Len(ListenUrls) |->
                              [url |-> ListenUrls[i], res |-> conn(i).res,
                               calls |-> conn(i).calls]]
           /\ namespaces' = SetupNs1Uri(namespaces, applicationUri)
           /\ IF failAt = "serverArray"
                THEN \* writeNs0VariableArray failed (line 830)
                     /\ lastRes' = BADINTERNALERROR
                     /\ UNCHANGED << state, startTime, serverArray,
                                     discoveryUrls >>
                ELSE
                  /\ serverArray' = << applicationUri >>
                  /\ IF past
                       THEN \* already started (line 832)
                            /\ lastRes' = GOOD
                            /\ UNCHANGED << state, startTime, discoveryUrls >>
                     ELSE IF failAt = "verifyUri"
                       THEN \* verifyServerApplicationURI failed (line 849)
                            /\ lastRes' = BADINTERNALERROR
                            /\ UNCHANGED << state, startTime, discoveryUrls >>
                     ELSE
                       /\ startTime' = SampleStartTime
                       /\ IF failAt = "discoveryUrl"
                            THEN \* UA_Array_appendCopy failed (line 881)
                                 /\ lastRes' = BADOUTOFMEMORY
                                 /\ UNCHANGED << state, discoveryUrls >>
                            ELSE /\ lastRes' = GOOD
                                 /\ discoveryUrls' =
                                        discoveryUrls \o AdvertisedUrls
                                 /\ state' = StartupLifecycle

StartupInputs == [1..Len(ListenUrls) -> OpenResults]

UA_Server_run_startup ==
    /\ startupCalls < MaxStartups
    /\ \E failAt \in FailPoints, opens \in StartupInputs :
         StartupBody(failAt, opens)
    /\ lastOp' = "run_startup"
    /\ phase' = IF lastRes' = GOOD THEN "started" ELSE phase
    /\ UNCHANGED << endTime, configVars, certVars, thrVars, rcVars, now, running, runVars, lastRet,
                    lastArg, lastUri, nsObsVars, reqVars >>

----------------------------------------------------------------------------
(* UA_Server_run_iterate *)

\* eventLoop->nextCyclicTime over a non-empty registry
NextCyclicTime(cyc) == Min({c.next : c \in cyc})

\* The value run_iterate returns (lines 933-934)
IterateReturn(nextCyclic, nowMonotonic) ==
    ToUInt16(TruncDiv(nextCyclic - nowMonotonic, UA_DATETIME_MSEC))

\* What the timer answers when no cyclic callback is registered is a
\* far-away deadline (the maximal date); after the conversion to 16 bits
\* the caller sees some 16-bit value
EmptyRegistryReturns == {0, UA_MAXTIMEOUT, 65535}

\* Time the event loop may spend in run(timeout): it returns at once or
\* waits the full timeout (nothing waits on a loop that is not started)
RunDurations(timeoutMs) ==
    IF elState = "STARTED"
      THEN {0} \cup {d \in {timeoutMs * UA_DATETIME_MSEC} :
                             now + d \in ClockInstants}
      ELSE {0}

\* The whole of UA_Server_run_iterate; lastRet' is the returned value
IterateBody ==
    \E d \in RunDurations(UA_MAXTIMEOUT) :
       LET t == now + d
           cyc == IF elState = "STARTED" THEN ProcessCyclic(cyclic, t)
                                         ELSE cyclic
       IN /\ now' = t
          /\ cyclic' = cyc
          /\ IF cyc = {}
               THEN lastRet' \in EmptyRegistryReturns
               ELSE lastRet' = IterateReturn(NextCyclicTime(cyc), t)

UA_Server_run_iterate ==
    /\ IterateBody
    /\ lastOp' = "run_iterate"
    /\ lastRes' = GOOD
    /\ openCalls' = << >>
    /\ UNCHANGED << serverVars, nsVars, configVars, certVars, thrVars, rcVars, discoveryUrls, elState,
                    elLastId, listeners, running, runVars, phase, lastArg,
                    lastUri, nsObsVars, startupCalls, reqVars >>

----------------------------------------------------------------------------
(* UA_Server_run_shutdown *)

\* The housekeeping id run_shutdown leaves behind (line 941)
ShutdownHouseKeepingId == 0

\* The start time run_shutdown leaves behind (it does not touch it)
ShutdownStartTime == startTime

\* The whole of UA_Server_run_shutdown.  drained: with a server-owned event
\* loop, whether the drain loop ended with the loop stopped (TRUE) or with
\* an error of run() (FALSE).  The function always returns Good.
ShutdownBody(drained, confirmed) ==
    /\ houseKeepingCallbackId' = ShutdownHouseKeepingId
    /\ startTime' = ShutdownStartTime
    /\ listeners' = 0
    /\ reverseConnectsCheckHandle' = 0
    /\ channels' = DeleteSecureChannels
    /\ ShutdownReverseConnects(
           externalEventLoop \/ elState \notin {"FRESH", "STOPPED"},
           ~externalEventLoop /\ elState \notin {"FRESH", "STOPPED"}
              /\ drained,
           confirmed)
    /\ IF externalEventLoop
         THEN \* one iteration of the caller's loop with a zero timeout
              /\ drained
              /\ elState' = elState
              /\ now' = now
              /\ cyclic' =
                   RemoveCyclicCallback(
                     IF elState = "STARTED"
                       THEN ProcessCyclic(
                              RemoveCyclicCallback(cyclic,
                                                   houseKeepingCallbackId),
                              now)
                       ELSE RemoveCyclicCallback(cyclic,
                                                 houseKeepingCallbackId),
                     reverseConnectsCheckHandle)
         ELSE \* stop() and run(100) until stopped, fresh or an error
              /\ cyclic' =
                   RemoveCyclicCallback(
                     RemoveCyclicCallback(cyclic, houseKeepingCallbackId),
                     reverseConnectsCheckHandle)
              /\ IF elState \in {"FRESH", "STOPPED"}
                   THEN drained /\ elState' = elState /\ now' = now
                   ELSE /\ elState' = IF drained THEN "STOPPED" ELSE "STOPPING"
                        /\ now' \in {now} \cup
                              {t \in ClockInstants : t > now /\
                                  t <= now + 100 * UA_DATETIME_MSEC}

UA_Server_run_shutdown ==
    /\ \E drained \in BOOLEAN, confirmed \in SUBSET ShutdownClosing :
         ShutdownBody(drained, confirmed)
    /\ lastOp' = "run_shutdown"
    /\ lastRes' = GOOD
    /\ phase' = "stopped"
    /\ openCalls' = << >>
    /\ UNCHANGED << state, endTime, nsVars, configVars, certKeep, thrVars, discoveryUrls,
                    elLastId, running, runVars, lastRet, lastArg, lastUri,
                    nsObsVars, startupCalls, reqVars >>

----------------------------------------------------------------------------
(* Time passes between two calls *)

Tick ==
    /\ \E t \in ClockInstants : t > now /\ now' = t
    /\ openCalls' = << >>
    /\ UNCHANGED << serverVars, nsVars, configVars, certVars, thrVars, rcVars, discoveryUrls, elVars,
                    running, runVars, phase, lastOp, lastRes, lastRet,
                    lastArg, lastUri, nsObsVars, startupCalls, reqVars >>

----------------------------------------------------------------------------
(* The lifecycle calls, made one after the other by the embedding program *)

Next ==
    \/ UA_Server_run_startup
    \/ UA_Server_run_iterate
    \/ UA_Server_run_shutdown
    \/ Tick

\* The lifecycle calls read neither the shutdown delay nor, beyond copying
\* it, the application URI: one value of each
LifeInit ==
    /\ Init
    /\ shutdownDelay = 0
    /\ applicationUri = "urn:app"

Spec == LifeInit /\ [][Next]_vars

----------------------------------------------------------------------------
(* UA_Server_run: delayed shutdown *)

\* (mutant) setServerShutdown without the check of a pending deadline: a
\* later request moves endTime
SetServerShutdownMoves(et, delay, t) ==
    IF delay = 0 THEN [stop |-> TRUE, endTime |-> et]
    ELSE [stop |-> FALSE, endTime |-> t + delay * UA_DATETIME_MSEC]

\* (mutant) setServerShutdown that records the deadline before it looks at
\* the delay
SetServerShutdownStamps(et, delay, t) ==
    IF et # 0 THEN [stop |-> FALSE, endTime |-> et]
    ELSE [stop |-> delay = 0, endTime |-> t + delay * UA_DATETIME_MSEC]

\* setServerShutdown at time t: whether to stop at once, and the new endTime
SetServerShutdown(et, delay, t) ==
    IF et # 0 THEN [stop |-> FALSE, endTime |-> et]
    ELSE IF delay = 0 THEN [stop |-> TRUE, endTime |-> et]
    ELSE [stop |-> FALSE, endTime |-> t + delay * UA_DATETIME_MSEC]

\* testShutdownCondition
TestShutdownCondition(et, t) == IF et = 0 THEN FALSE ELSE t > et

\* UA_Server_run is entered: run_startup, and the return on its failure
RunBegin ==
    /\ runPc = "idle"
    /\ startupCalls < MaxRuns
    /\ \E failAt \in FailPoints, opens \in StartupInputs :
         StartupBody(failAt, opens)
    /\ phase' = IF lastRes' = GOOD THEN "started" ELSE phase
    /\ lastOp' = IF lastRes' = GOOD THEN "run_startup" ELSE "run"
    /\ runPc' = IF lastRes' = GOOD THEN "test" ELSE "done"
    /\ runRet' = lastRes'
    /\ shutdownCalls' = 0
    /\ UNCHANGED << endTime, configVars, certVars, thrVars, rcVars, now,
                    running, lastRet, lastArg, lastUri, nsObsVars, reqVars >>

\* the loop condition: while(!testShutdownCondition(server))
RunTest ==
    /\ runPc = "test"
    /\ runPc' = IF TestShutdownCondition(endTime, now) THEN "shutdown"
                                                       ELSE "iterate"
    /\ UNCHANGED << serverVars, nsVars, configVars, openCalls, certVars, thrVars, rcVars, discoveryUrls, elVars,
                    now, running, runRet, shutdownCalls, phase, lastOp,
                    lastRes, lastRet, lastArg, lastUri, nsObsVars,
                    startupCalls, reqVars >>

\* UA_Server_run_iterate(server, true) in the loop
RunIterate ==
    /\ runPc = "iterate"
    /\ IterateBody
    /\ runPc' = "check"
    /\ lastOp' = "run_iterate"
    /\ lastRes' = GOOD
    /\ UNCHANGED << serverVars, nsVars, configVars, openCalls, certVars, thrVars, rcVars, discoveryUrls, elState,
                    elLastId, listeners, running, runRet, shutdownCalls,
                    phase, lastArg, lastUri, nsObsVars, startupCalls,
                    reqVars >>

\* if(!*running) { if(setServerShutdown(server)) break; }
RunCheck ==
    /\ runPc = "check"
    /\ IF running
         THEN /\ runPc' = "test"
              /\ UNCHANGED << endTime, reqVars >>
         ELSE LET r == SetServerShutdown(endTime, shutdownDelay, now)
              IN /\ endTime' = r.endTime
                 /\ runPc' = IF r.stop THEN "shutdown" ELSE "test"
                 /\ shutdownRequested' = TRUE
                 /\ firstRequest' = IF shutdownRequested THEN firstRequest
                                                         ELSE now
    /\ UNCHANGED << state, houseKeepingCallbackId, startTime, nsVars,
                    configVars, openCalls, certVars, thrVars, rcVars, discoveryUrls, elVars, now, running, runRet,
                    shutdownCalls, phase, lastOp, lastRes, lastRet, lastArg,
                    lastUri, nsObsVars, startupCalls >>

\* return UA_Server_run_shutdown(server)
RunShutdown ==
    /\ runPc = "shutdown"
    /\ \E drained \in BOOLEAN, confirmed \in SUBSET ShutdownClosing :
         ShutdownBody(drained, confirmed)
    /\ runPc' = "done"
    /\ runRet' = GOOD
    /\ shutdownCalls' = shutdownCalls + 1
    /\ phase' = "stopped"
    /\ lastOp' = "run"
    /\ lastRes' = GOOD
    /\ UNCHANGED << state, endTime, nsVars, configVars, openCalls, certKeep, thrVars, discoveryUrls,
                    elLastId, running, lastRet, lastArg, lastUri, nsObsVars,
                    startupCalls, reqVars >>

\* the embedding program calls UA_Server_run again, its flag set
RunAgain ==
    /\ runPc = "done"
    /\ startupCalls < MaxRuns
    /\ runPc' = "idle"
    /\ running' = TRUE
    /\ UNCHANGED << serverVars, nsVars, configVars, openCalls, certVars, thrVars, rcVars, discoveryUrls, elVars,
                    now, runRet, shutdownCalls, phase, lastOp, lastRes,
                    lastRet, lastArg, lastUri, nsObsVars, startupCalls,
                    reqVars >>

\* the embedding program (a signal handler) clears the running flag
StopRunning ==
    /\ running
    /\ runPc \notin {"idle", "done"}
    /\ running' = FALSE
    /\ UNCHANGED << serverVars, nsVars, configVars, openCalls, certVars, thrVars, rcVars, discoveryUrls, elVars,
                    now, runVars, phase, lastOp, lastRes, lastRet, lastArg,
                    lastUri, nsObsVars, startupCalls, reqVars >>

RunStep == RunBegin \/ RunTest \/ RunIterate \/ RunCheck \/ RunShutdown

NextRun == RunStep \/ RunAgain \/ StopRunning \/ Tick

RunInit ==
    /\ Init
    /\ applicationUri = "urn:app"
    /\ serverUrls = << >>

SpecRun == RunInit /\ [][NextRun]_vars

\* The caller's thread keeps running and the clock keeps advancing
FairSpecRun == SpecRun /\ WF_vars(RunStep) /\ WF_vars(Tick)

----------------------------------------------------------------------------
(* Namespace registry: addNamespace, getNamespaceByName, getNamespaceByIndex *)

\* the URIs the embedding program passes
NsUris == {"A", "B", "C", "urn:app", Ns0Uri, UA_STRING_NULL}

\* Scenario 2 of the specification: add A, B, A, C
GrowthScenario == << "A", "B", "A", "C" >>
NoLog == << [name |-> "-", ret |-> 0] >>

\* 0-based index of the first slot of ns that holds uri (Len(ns): none); the
\* search loops of addNamespace and getNamespaceByName
FirstIndex(ns, uri) ==
    IF \E i \in 1..Len(ns) : ns[i] = uri
      THEN Min({i \in 1..Len(ns) : ns[i] = uri}) - 1
      ELSE Len(ns)

\* (mutant) addNamespace that returns the new size instead of the new index
AddNamespaceSize(ns, appUri, name, allocOk) ==
    LET t == SetupNs1Uri(ns, appUri)
        i == FirstIndex(t, name)
    IN IF i < Len(t) THEN [ns |-> t, ret |-> ToUInt16(i), ok |-> TRUE]
       ELSE IF ~allocOk THEN [ns |-> t, ret |-> 0, ok |-> FALSE]
       ELSE [ns |-> Append(t, name), ret |-> ToUInt16(Len(t) + 1),
             ok |-> TRUE]

\* addNamespace(server, name): the table it leaves and the index it returns
\* (lines 66-90); allocOk: realloc and UA_String_copy succeed
AddNamespace(ns, appUri, name, allocOk) ==
    LET t == SetupNs1Uri(ns, appUri)
        i == FirstIndex(t, name)
    IN IF i < Len(t) THEN [ns |-> t, ret |-> ToUInt16(i), ok |-> TRUE]
       ELSE IF ~allocOk THEN [ns |-> t, ret |-> 0, ok |-> FALSE]
       ELSE [ns |-> Append(t, name), ret |-> ToUInt16(Len(t)), ok |-> TRUE]

\* addLog after one more call
Logged(log, name, ret, ok) ==
    IF /\ log # NoLog
       /\ ok
       /\ Len(log) < Len(GrowthScenario)
       /\ GrowthScenario[Len(log) + 1] = name
      THEN Append(log, [name |-> name, ret |-> ret])
      ELSE NoLog

UA_Server_addNamespace ==
    \E name \in NsUris, allocOk \in BOOLEAN :
       LET r == AddNamespace(namespaces, applicationUri, name, allocOk)
       IN /\ Len(r.ns) <= MaxNs
          /\ namespaces' = r.ns
          /\ lastOp' = "addNamespace"
          /\ lastArg' = name
          /\ lastRet' = r.ret
          /\ lastRes' = IF r.ok THEN GOOD ELSE BADOUTOFMEMORY
          /\ lastUri' = UA_STRING_NULL
          /\ addLog' = Logged(addLog, name, r.ret, r.ok)
          /\ UNCHANGED << serverVars, serverArray, configVars, openCalls, certVars, thrVars, rcVars, discoveryUrls,
                          elVars, now, running, runVars, phase, oobRead,
                          startupCalls, reqVars >>

\* getNamespaceByName (lines 109-123): status and found index
GetNamespaceByName(ns, uri) ==
    IF FirstIndex(ns, uri) < Len(ns)
      THEN [res |-> GOOD, index |-> FirstIndex(ns, uri)]
      ELSE [res |-> BADNOTFOUND, index |-> 0]

UA_Server_getNamespaceByName ==
    \E uri \in NsUris :
       LET t == SetupNs1Uri(namespaces, applicationUri)
           r == GetNamespaceByName(t, uri)
       IN /\ namespaces' = t
          /\ lastOp' = "getNamespaceByName"
          /\ lastArg' = uri
          /\ lastRes' = r.res
          /\ lastRet' = r.index
          /\ lastUri' = UA_STRING_NULL
          /\ UNCHANGED << serverVars, serverArray, configVars, openCalls, certVars, thrVars, rcVars, discoveryUrls,
                          elVars, now, running, runVars, phase, nsObsVars,
                          startupCalls, reqVars >>

\* what a read past the end of the table may yield
StrayUris == {UA_STRING_NULL, "?"}

\* getNamespaceByIndex (lines 125-135); lastRet' records the index asked for
UA_Server_getNamespaceByIndex ==
    \E index \in 0..(Len(namespaces) + 1) :
       LET t == SetupNs1Uri(namespaces, applicationUri)
       IN /\ namespaces' = t
          /\ lastOp' = "getNamespaceByIndex"
          /\ lastArg' = UA_STRING_NULL
          /\ lastRet' = index
          /\ IF index > Len(t)
               THEN /\ lastRes' = BADNOTFOUND
                    /\ lastUri' = UA_STRING_NULL
                    /\ oobRead' = oobRead
             ELSE IF index = Len(t)
               THEN \* namespaces[namespacesSize] is read: outside the table
                    /\ oobRead' = TRUE
                    /\ \E u \in StrayUris, r \in {GOOD, BADOUTOFMEMORY} :
                         /\ lastRes' = r
                         /\ lastUri' = IF r = GOOD THEN u ELSE UA_STRING_NULL
             ELSE /\ lastRes' = GOOD
                  /\ lastUri' = t[index + 1]
                  /\ oobRead' = oobRead
          /\ UNCHANGED << serverVars, serverArray, configVars, openCalls, certVars, thrVars, rcVars, discoveryUrls,
                          elVars, now, running, runVars, phase, addLog,
                          startupCalls, reqVars >>

NextNs ==
    \/ UA_Server_addNamespace
    \/ UA_Server_getNamespaceByName
    \/ UA_Server_getNamespaceByIndex

NsInit ==
    /\ Init
    /\ shutdownDelay = 0
    /\ serverUrls = << >>
    /\ ~externalEventLoop

SpecNs == NsInit /\ [][NextNs]_vars

\* The namespace calls and run_startup, in any order
NextNsStartup ==
    \/ UA_Server_addNamespace
    \/ UA_Server_getNamespaceByName
    \/ UA_Server_getNamespaceByIndex
    \/ UA_Server_run_startup

\* a configuration whose only server url is malformed: no listener opens
NsStartupInit ==
    /\ Init
    /\ shutdownDelay = 0
    /\ serverUrls = << Url(FALSE, "", 0) >>
    /\ ~externalEventLoop

SpecNsStartup == NsStartupInit /\ [][NextNsStartup]_vars

----------------------------------------------------------------------------
(* Claims about the lifecycle calls (specification Spec) *)

\* C1 (as claimed): after a successful run_startup the lifecycle state of
\* the server is no longer fresh, until run_shutdown is called.
C1_StartedAfterStartup ==
    phase = "started" => state > UA_SERVERLIFECYCLE_FRESH

\* C2 (as claimed): a successful run_startup on a started server changes
\* nothing: no cyclic callback is registered, no listening connection is
\* opened, no discovery url is appended, the start time is not sampled again.
C2_StartupIdempotent ==
    [][ (phase = "started" /\ lastOp' = "run_startup" /\ lastRes' = GOOD)
          => /\ cyclic' = cyclic
             /\ listeners' = listeners
             /\ discoveryUrls' = discoveryUrls
             /\ startTime' = startTime ]_vars

\* C3 (as claimed): houseKeepingCallbackId is 0 before run_startup and after
\* run_shutdown, and non-zero between a successful run_startup and the
\* run_shutdown that follows it.
C3_HouseKeepingIdByPhase ==
    /\ phase \in {"fresh", "stopped"} => houseKeepingCallbackId = 0
    /\ phase = "started" => houseKeepingCallbackId # 0

\* C4 (as claimed): when run_shutdown has returned, or run_startup or
\* UA_Server_run has returned a failure status, no cyclic callback of the
\* server is registered with the event loop any more.
C4_NothingRegisteredAfterExit ==
    ( \/ lastOp = "run_shutdown"
      \/ (lastOp \in {"run_startup", "run"} /\ lastRes # GOOD) )
      => RegisteredIds = {}

\* C5 (as claimed): startTime is 0 exactly when the server is fresh or
\* stopped.
C5_StartTimeZeroIffNotStarted ==
    (startTime = 0) <=> (phase \in {"fresh", "stopped"})

\* C5 (amended): startTime is 0 after construction, as long as run_startup
\* has not been called; it is non-zero after every successful run_startup;
\* run_shutdown leaves it as it is, and once non-zero it stays non-zero.
C5_StartTimeSampledAndKept ==
    /\ [](startupCalls = 0 => startTime = 0)
    /\ [](phase = "started" => startTime # 0)
    /\ [][ /\ lastOp' = "run_shutdown" => startTime' = startTime
           /\ startTime # 0 => startTime' # 0 ]_vars

\* C5 witness: a server that was started and then shut down
C5_Witness ==
    /\ lastOp = "run_shutdown"
    /\ phase = "stopped"
    /\ startupCalls > 0
    /\ startTime # 0

\* C8 (as claimed): whatever the next cyclic deadline of the event loop and
\* the current time are, the value run_iterate returns never exceeds 50.
C8_IterateReturnAtMost50 ==
    (lastOp = "run_iterate" /\ RegisteredIds # {})
      => lastRet <= UA_MAXTIMEOUT

----------------------------------------------------------------------------
(* Claims about UA_Server_run (specifications SpecRun and FairSpecRun) *)

\* C6 (as claimed): endTime is 0 exactly when no shutdown has been requested
\* through setServerShutdown, for every shutdownDelay, 0 included.
C6_EndTimeZeroIffNoRequest ==
    (endTime = 0) <=> ~shutdownRequested

\* C6 (amended): endTime is non-zero only after a shutdown request; with a
\* shutdownDelay > 0 it is 0 exactly when no shutdown has been requested;
\* with shutdownDelay = 0 it stays 0 also after a request.
C6_EndTimeByDelay ==
    /\ endTime # 0 => shutdownRequested
    /\ shutdownDelay > 0 => (shutdownRequested => endTime # 0)
    /\ shutdownDelay = 0 => endTime = 0

\* C6 witness: a shutdown was requested with delay 0 and the run has ended
C6_Witness ==
    /\ shutdownRequested
    /\ shutdownDelay = 0
    /\ runPc = "done"
    /\ shutdownCalls = 1

InLoop == runPc \in {"test", "iterate", "check"}

----------------------------------------------------------------------------
(* Claims about the namespace registry (SpecNs and SpecNsStartup) *)

\* the table as a call finds it once slot 1 has been filled lazily
NsView == SetupNs1Uri(namespaces, applicationUri)

Holds(ns, uri) == \E i \in 1..Len(ns) : ns[i] = uri

\* C9: every addNamespace call without allocation failure returns the
\* position of the first occurrence of its URI in the table; a URI that the
\* table already holds leaves the table as it is; a new URI is appended at
\* the end.  Adding A, B, A, C to a fresh table returns 2, 3, 2, 4 and
\* leaves 5 entries.
C9_AddNamespaceIndex ==
    /\ [][ (lastOp' = "addNamespace" /\ lastRes' = GOOD)
             => /\ lastRet' < Len(namespaces')
                /\ namespaces'[lastRet' + 1] = lastArg'
                /\ \A j \in 1..lastRet' : namespaces'[j] # lastArg'
                /\ IF Holds(NsView, lastArg')
                     THEN namespaces' = NsView
                     ELSE /\ namespaces' = Append(NsView, lastArg')
                          /\ lastRet' = Len(namespaces') - 1 ]_vars
    /\ [](addLog # NoLog =>
            /\ \A k \in 1..Len(addLog) :
                 addLog[k].ret = << 2, 3, 2, 4 >>[k]
            /\ Len(addLog) = Len(GrowthScenario) => Len(namespaces) = 5)

\* C9 witness: the four calls of the growth scenario have been made
C9_Witness ==
    /\ addLog # NoLog
    /\ Len(addLog) = Len(GrowthScenario)
    /\ lastOp = "addNamespace"

Ns1Matches == (namespaces[2] # UA_STRING_NULL) <=> (applicationUri # UA_STRING_NULL)

C11_IndexLookupInBounds ==
    /\ ~oobRead
    /\ lastOp = "getNamespaceByIndex"
         => IF lastRet >= Len(namespaces)
              THEN lastRes = BADNOTFOUND
              ELSE lastRes = GOOD /\ lastUri = namespaces[lastRet + 1]

----------------------------------------------------------------------------
(* Reverse connects: the public calls and the event-loop callbacks *)

RcUrls == {Url(TRUE, "client", 4841), Url(FALSE, "", 0)}

\* UA_Server_addReverseConnect (lines 666-698); lastRet' is the handle
\* written to the out-parameter
UA_Server_addReverseConnect ==
    \E url \in RcUrls, allocOk \in BOOLEAN, open \in OpenResults :
       LET e == Cardinality(Allocated) + 1
           retry == IF reverseConnects = << >>
                      THEN SetReverseConnectRetryCallback(
                             TRUE, reverseConnectsCheckHandle, cyclic,
                             elLastId)
                      ELSE [h |-> reverseConnectsCheckHandle,
                            cyc |-> cyclic, last |-> elLastId]
           h == IssueHandle(lastReverseConnectHandle)
           ent == [NoEntry EXCEPT !.used = TRUE, !.handle = h]
           st == attemptReverseConnect(e, ent, open, conns, lastConnId)
       IN
       /\ lastOp' = "addReverseConnect"
       /\ lastArg' = UA_STRING_NULL
       /\ lastUri' = UA_STRING_NULL
       /\ IF ~url.valid
            THEN \* UA_parseEndpointUrl failed (line 674)
                 /\ lastRes' = BADTCPENDPOINTURLINVALID
                 /\ lastRet' = 0
                 /\ stateCallbacks' = << >>
                 /\ UNCHANGED << reverseConnects, rc,
                                 lastReverseConnectHandle,
                                 reverseConnectsCheckHandle, delayed, conns,
                                 lastConnId, rcObs, cyclic, elLastId >>
            ELSE
              /\ retry.last <= MaxCallbacks
              /\ reverseConnectsCheckHandle' = retry.h
              /\ cyclic' = retry.cyc
              /\ elLastId' = retry.last
              /\ IF ~allocOk
                   THEN \* calloc failed (line 685)
                        /\ lastRes' = BADOUTOFMEMORY
                        /\ lastRet' = 0
                        /\ stateCallbacks' = << >>
                        /\ UNCHANGED << reverseConnects, rc,
                                        lastReverseConnectHandle, delayed,
                                        conns, lastConnId, rcObs >>
                   ELSE /\ e \in RcIds
                        /\ st.lastConnId <= MaxConns
                        /\ lastReverseConnectHandle' = h
                        /\ reverseConnects' = << e >> \o reverseConnects
                        /\ rc' = [rc EXCEPT ![e] = st.ent]
                        /\ conns' = st.conns
                        /\ lastConnId' = st.lastConnId
                        /\ lastRes' = st.res
                        /\ lastRet' = h
                        /\ stateCallbacks' = st.cbs
                        /\ UNCHANGED << delayed, rcObs >>
       /\ UNCHANGED << serverVars, nsVars, configVars, openCalls, certVars, thrVars, discoveryUrls,
                       elState, listeners, now, running, runVars, phase,
                       nsObsVars, startupCalls, reqVars >>

\* UA_Server_removeReverseConnect (lines 712-750).  An entry of the list
\* that has been freed is read as it was left (one outcome of the read).
UA_Server_removeReverseConnect ==
    \E handle \in 1..(MaxReverseConnects + 1) :
       LET n == Len(reverseConnects)
           hits == {i \in 1..n : rc[reverseConnects[i]].handle = handle}
           found == hits # {}
           k == IF found THEN Min(hits) ELSE n
           e == reverseConnects[k]
           visited == {reverseConnects[i] : i \in 1..k}
           rest == IF found
                     THEN SubSeq(reverseConnects, 1, k - 1) \o
                          SubSeq(reverseConnects, k + 1, n)
                     ELSE reverseConnects
           retry == IF rest = << >>
                      THEN SetReverseConnectRetryCallback(
                             FALSE, reverseConnectsCheckHandle, cyclic,
                             elLastId)
                      ELSE [h |-> reverseConnectsCheckHandle,
                            cyc |-> cyclic, last |-> elLastId]
       IN
       /\ lastOp' = "removeReverseConnect"
       /\ lastArg' = UA_STRING_NULL
       /\ lastUri' = UA_STRING_NULL
       /\ lastRet' = handle
       /\ lastRes' = IF found THEN GOOD ELSE BADNOTFOUND
       /\ reverseConnects' = rest
       /\ reverseConnectsCheckHandle' = retry.h
       /\ cyclic' = retry.cyc
       /\ rcObs' = [rcObs EXCEPT
                      !.dangling = @ \/ \E v \in visited : rc[v].frees > 0]
       /\ IF ~found
            THEN /\ stateCallbacks' = << >>
                 /\ UNCHANGED << rc, delayed, conns >>
          ELSE IF rc[e].connectionId # 0
            THEN \* deferred free (lines 721-735)
                 /\ rc' = [rc EXCEPT ![e].destruction = TRUE,
                                     ![e].removed = TRUE]
                 /\ stateCallbacks' = << >>
                 /\ delayed' = delayed \cup {e}
                 /\ conns' = {IF c.id = rc[e].connectionId
                                THEN [c EXCEPT !.phase = "closing"]
                                ELSE c : c \in conns}
            ELSE \* immediate free (lines 736-740)
                 /\ rc' = [rc EXCEPT
                             ![e] = Free([SetReverseConnectState(
                                            rc[e], "CLOSED").ent
                                            EXCEPT !.removed = TRUE],
                                         "remove")]
                 /\ stateCallbacks' =
                        SetReverseConnectState(rc[e], "CLOSED").cbs
                 /\ UNCHANGED << delayed, conns >>
       /\ UNCHANGED << lastReverseConnectHandle, lastConnId, elLastId,
                       serverVars, nsVars, configVars, openCalls, certVars, thrVars, discoveryUrls,
                       elState, listeners, now, running, runVars, phase,
                       nsObsVars, startupCalls, reqVars >>

\* The retry callback, over the list from position k on: every entry in
\* state closed that is not being destroyed is attempted
RECURSIVE RetryFrom(_, _, _)
RetryFrom(k, open, st) ==
    IF k > Len(reverseConnects) THEN st
    ELSE
      LET e == reverseConnects[k]
          ent == st.rc[e]
      IN IF ent.state = "CLOSED" /\ ~ent.destruction
           THEN LET a == attemptReverseConnect(e, ent, open, st.conns,
                                               st.lastConnId)
                IN RetryFrom(k + 1, open,
                     [rc |-> [st.rc EXCEPT ![e] = a.ent],
                      conns |-> a.conns, lastConnId |-> a.lastConnId,
                      cbs |-> st.cbs \o a.cbs])
           ELSE RetryFrom(k + 1, open, st)

\* The 1 Hz retry callback fires in an iteration of the event loop
RetryTick ==
    /\ reverseConnectsCheckHandle \in RegisteredIds
    /\ elState = "STARTED"
    /\ \E open \in OpenResults :
         LET st == RetryFrom(1, open, [rc |-> rc, conns |-> conns,
                                       lastConnId |-> lastConnId,
                                       cbs |-> << >>])
         IN /\ st.lastConnId <= MaxConns
            /\ stateCallbacks' = st.cbs
            /\ rc' = st.rc
            /\ conns' = st.conns
            /\ lastConnId' = st.lastConnId
    /\ rcObs' = [rcObs EXCEPT
                   !.dangling = @ \/ \E e \in Listed : rc[e].frees > 0]
    /\ UNCHANGED << reverseConnects, lastReverseConnectHandle,
                    reverseConnectsCheckHandle, delayed, serverVars, nsVars,
                    configVars, openCalls, certVars, thrVars, discoveryUrls, elVars, now, running, runVars,
                    phase, lastOp, lastRes, lastRet, lastArg, lastUri,
                    nsObsVars, startupCalls, reqVars >>

\* what the transport may report next for a connection
ConnectionEvents(c) ==
    IF c.phase = "opening" THEN {"ESTABLISHED", "CLOSING"} ELSE {"CLOSING"}

\* UA_Server_reverseConnectCallback: the transport reports an event of a
\* connection, the entry given to openConnection is its context
NetworkCallback ==
    /\ elState \in {"STARTED", "STOPPING"}
    /\ \E c \in conns : \E ev \in ConnectionEvents(c) :
         LET ent == rc[c.ctx]
         IN
         /\ conns' = IF ev = "ESTABLISHED"
                       THEN (conns \ {c}) \cup
                              {[c EXCEPT !.phase = "established"]}
                       ELSE conns \ {c}
         /\ IF ent.frees > 0
              THEN \* the context has been freed
                   /\ rcObs' =
                        [rcObs EXCEPT
                           !.uafImmediate = @ \/ ent.freedBy = "remove",
                           !.uafDeferred = @ \/ ent.freedBy = "delayed",
                           !.uafShutdown = @ \/ ent.freedBy = "shutdown"]
                   /\ rc' = rc
                   /\ stateCallbacks' = << >>
            ELSE IF ent.destruction
              THEN /\ stateCallbacks' = << >>
                   /\ UNCHANGED << rc, rcObs >>
            ELSE IF ev = "ESTABLISHED"
              THEN LET s == SetReverseConnectState(
                              [ent EXCEPT !.connectionId = c.id],
                              "CONNECTED")
                   IN /\ rc' = [rc EXCEPT ![c.ctx] = s.ent]
                      /\ stateCallbacks' = s.cbs
                      /\ rcObs' = rcObs
            ELSE IF ent.connectionId \in {0, c.id}
              THEN LET s == SetReverseConnectState(
                              [ent EXCEPT !.connectionId = 0], "CLOSED")
                   IN /\ rc' = [rc EXCEPT ![c.ctx] = s.ent]
                      /\ stateCallbacks' = s.cbs
                      /\ rcObs' = rcObs
            ELSE /\ stateCallbacks' = << >>
                 /\ UNCHANGED << rc, rcObs >>
    /\ UNCHANGED << reverseConnects, lastReverseConnectHandle,
                    reverseConnectsCheckHandle, delayed, lastConnId,
                    serverVars, nsVars, configVars, openCalls, certVars, thrVars, discoveryUrls, elVars,
                    now, running, runVars, phase, lastOp, lastRes, lastRet,
                    lastArg, lastUri, nsObsVars, startupCalls, reqVars >>

\* freeReverseConnectCallback (lines 700-710), run by the event loop after
\* an iteration
DelayedCallback ==
    /\ elState \in {"STARTED", "STOPPING"}
    /\ \E e \in delayed :
         /\ rc' = [rc EXCEPT ![e] = Free(rc[e], "delayed")]
         /\ delayed' = delayed \ {e}
    /\ stateCallbacks' = << >>
    /\ UNCHANGED << reverseConnects, lastReverseConnectHandle,
                    reverseConnectsCheckHandle, conns, lastConnId, rcObs,
                    serverVars, nsVars, configVars, openCalls, certVars, thrVars, discoveryUrls, elVars,
                    now, running, runVars, phase, lastOp, lastRes, lastRet,
                    lastArg, lastUri, nsObsVars, startupCalls, reqVars >>

\* eventLoop->start, called by the program that owns the event loop
EventLoopStart ==
    /\ elState = "FRESH"
    /\ elState' = "STARTED"
    /\ UNCHANGED << cyclic, elLastId, listeners, rcVars, serverVars, nsVars,
                    configVars, openCalls, certVars, thrVars, discoveryUrls, now, running, runVars, phase,
                    lastOp, lastRes, lastRet, lastArg, lastUri, nsObsVars,
                    startupCalls, reqVars >>

NextRc ==
    \/ UA_Server_addReverseConnect
    \/ UA_Server_removeReverseConnect
    \/ RetryTick
    \/ NetworkCallback
    \/ DelayedCallback
    \/ EventLoopStart
    \/ UA_Server_run_shutdown

\* one configuration: no listener opens (the only server url is malformed)
RcInit ==
    /\ Init
    /\ applicationUri = "urn:app"
    /\ shutdownDelay = 0
    /\ serverUrls = << Url(FALSE, "", 0) >>

SpecRc == RcInit /\ [][NextRc]_vars

\* the event loop keeps iterating: its callbacks are not postponed forever
FairSpecRc ==
    SpecRc /\ WF_vars(RetryTick) /\ WF_vars(NetworkCallback)
           /\ WF_vars(DelayedCallback)

\* The reverse-connect calls and the callbacks of a running event loop,
\* without shutdown
NextRcCalls ==
    \/ UA_Server_addReverseConnect
    \/ UA_Server_removeReverseConnect
    \/ NetworkCallback
    \/ DelayedCallback
    \/ EventLoopStart

\* no call of these reads config.externalEventLoop: the server owns the loop
RcCallsInit == RcInit /\ ~externalEventLoop

SpecRcCalls == RcCallsInit /\ [][NextRcCalls]_vars

\* addNamespace and the reverse-connect calls, allocation failures included
NextAlloc ==
    \/ UA_Server_addNamespace
    \/ UA_Server_addReverseConnect
    \/ UA_Server_removeReverseConnect

AllocInit == RcInit /\ ~externalEventLoop

SpecAlloc == AllocInit /\ [][NextAlloc]_vars

----------------------------------------------------------------------------
(* Claims about the reverse connects *)

\* the entries of the list that have not been freed
LiveListed == {e \in Listed : rc[e].frees = 0}

\* C12: every add that creates an entry issues a handle greater than every
\* handle issued before and writes it to the out-parameter; handles grow in
\* the order of creation, removed entries included, so none is reused, and
\* no two entries of the list share a handle.
C12_HandlesNeverReused ==
    /\ [][ Allocated' # Allocated
             => /\ lastOp' = "addReverseConnect"
                /\ \A e \in Allocated : rc[e].handle < lastRet'
                /\ \E e \in Allocated' \ Allocated :
                     /\ rc'[e].handle = lastRet'
                     /\ reverseConnects'[1] = e ]_vars
    /\ [](\A e1, e2 \in Allocated :
            e1 < e2 => rc[e1].handle < rc[e2].handle)
    /\ [](\A i, j \in 1..Len(reverseConnects) :
            i # j => rc[reverseConnects[i]].handle
                       # rc[reverseConnects[j]].handle)

\* C12 witness: a handle issued after the entry of an earlier handle was
\* removed
C12_Witness ==
    /\ lastOp = "addReverseConnect"
    /\ rc[1].removed
    /\ rc[2].used
    /\ lastRet = rc[2].handle
    /\ reverseConnects = << 2 >>

\* C13 (as claimed): an entry removed by removeReverseConnect is freed
\* exactly once: at most one free() is made on it, and if none has been made
\* yet its delayed free callback is pending.
C13_ReleasedExactlyOnce ==
    \A e \in RcIds :
       rc[e].removed => /\ rc[e].frees <= 1
                        /\ rc[e].frees = 0 => e \in delayed

\* C14 (as claimed): no transport callback is delivered with an entry as its
\* context that removeReverseConnect has freed at once, i.e. that had no
\* connection id recorded when it was removed.
C14_NoCallbackAfterImmediateFree ==
    ~rcObs.uafImmediate

\* C15 (as claimed): the retry cyclic callback is registered exactly when
\* the reverse-connect list holds an entry.
C15_RetryRegisteredIffListed ==
    (reverseConnectsCheckHandle \in RegisteredIds) <=> (LiveListed # {})

\* C16 (as claimed): an addNamespace or addReverseConnect call that fails
\* on an allocation leaves the namespace table, the reverse-connect list,
\* the last issued handle and the registration of the retry callback as
\* they were before the call.
C16_AllocFailureChangesNothing ==
    [][ (lastOp' \in {"addNamespace", "addReverseConnect"}
           /\ lastRes' = BADOUTOFMEMORY)
          => /\ namespaces' = NsView
             /\ reverseConnects' = reverseConnects
             /\ rc' = rc
             /\ lastReverseConnectHandle' = lastReverseConnectHandle
             /\ reverseConnectsCheckHandle' = reverseConnectsCheckHandle
             /\ RegisteredIds' = RegisteredIds ]_vars

\* C19 (as claimed): an entry removed while it had a connection is freed by
\* the delayed callback only when the close of that connection has been
\* confirmed by the transport, and no network callback runs with such a
\* freed entry as its context.
C19_DeferredFreeAfterCloseConfirmed ==
    /\ ~rcObs.uafDeferred
    /\ \A e \in RcIds :
         rc[e].freedBy = "delayed"
           => \A c \in conns : c.id # rc[e].connectionId

\* an entry of the list without a connection that the retry callback skips
Skipped(e) ==
    /\ e \in LiveListed
    /\ ~rc[e].destruction
    /\ rc[e].connectionId = 0
    /\ \A c \in conns : c.ctx # e
    /\ rc[e].state # "CLOSED"

\* C20 (as claimed): an entry whose connect attempt failed synchronously
\* does not stay for ever without a connection in a state that the retry
\* callback skips: it is attempted again, removed, or shut down.
C20_FailedAttemptIsRetried ==
    \A e \in RcIds : Skipped(e) ~> ~Skipped(e)

----------------------------------------------------------------------------
(* Certificate rotation: UA_Server_updateCertificate *)

\* A client opens a secure channel with one of the configured policies
OpenSecureChannel ==
    /\ Len(channels) < MaxChannels
    /\ \E p \in DOMAIN securityPolicies :
         channels' = Append(channels, [securityPolicy |-> p, state |-> "OPEN"])
    /\ UNCHANGED << sessions, endpoints, securityPolicies, serverVars, nsVars,
                    configVars, openCalls, rcVars, thrVars, discoveryUrls, elVars, now,
                    running, runVars, phase, lastOp, lastRes, lastRet,
                    lastArg, lastUri, nsObsVars, startupCalls, reqVars >>

\* A client creates a session on an open channel (LIST_INSERT_HEAD)
CreateSession ==
    /\ Len(sessions) < MaxSessions
    /\ \E c \in DOMAIN channels :
         /\ channels[c].state = "OPEN"
         /\ sessions' = << [channel |-> c] >> \o sessions
    /\ UNCHANGED << channels, endpoints, securityPolicies, serverVars, nsVars,
                    configVars, openCalls, rcVars, thrVars, discoveryUrls, elVars, now,
                    running, runVars, phase, lastOp, lastRes, lastRet,
                    lastArg, lastUri, nsObsVars, startupCalls, reqVars >>

\* UA_Server_updateCertificate(server, old, new, key, closeSessions,
\* closeSecureChannels); args: server, old, new and key are all given;
\* stop: where the session loop ends (see SessionLoop)
updateCertificate(args, old, new, closeSessions, closeSecureChannels, stop) ==
    /\ LET ep == EndpointLoop(1, [endpoints |-> endpoints,
                                  securityPolicies |-> securityPolicies,
                                  res |-> GOOD], old, new)
       IN /\ sessions' = IF args /\ closeSessions
                           THEN SessionLoop(old, stop) ELSE sessions
          /\ channels' = IF args /\ closeSecureChannels
                           THEN ChannelLoop(old) ELSE channels
          /\ endpoints' = IF args THEN ep.endpoints ELSE endpoints
          /\ securityPolicies' = IF args THEN ep.securityPolicies
                                 ELSE securityPolicies
          /\ lastRes' = IF args THEN ep.res ELSE BADINTERNALERROR
    /\ lastOp' = "updateCertificate"
    /\ UNCHANGED << serverVars, nsVars, configVars, openCalls, rcVars, thrVars,
                    discoveryUrls, elVars, now, running, runVars, phase,
                    lastRet, lastArg, lastUri, nsObsVars, startupCalls,
                    reqVars >>

UA_Server_updateCertificate ==
    \/ updateCertificate(FALSE, "certA", "certA", FALSE, FALSE, 0)
    \/ \E old \in Certs, new \in Certs,
          closeSessions \in BOOLEAN, closeSecureChannels \in BOOLEAN :
         \E stop \in IF closeSessions THEN StopPoints(old) ELSE {0} :
           updateCertificate(TRUE, old, new, closeSessions,
                             closeSecureChannels, stop)

NextCert ==
    \/ OpenSecureChannel
    \/ CreateSession
    \/ UA_Server_updateCertificate

CertInit ==
    /\ \E pols \in PolicyConfigs, eps \in EndpointConfigs :
         ServerInit(pols, eps)
    /\ applicationUri = "urn:app"
    /\ shutdownDelay = 0
    /\ serverUrls = << Url(FALSE, "", 0) >>
    /\ ~externalEventLoop

SpecCert == CertInit /\ [][NextCert]_vars

----------------------------------------------------------------------------
(* Public calls made from several threads *)

\* the step thread t executes next; a thread outside the server is at none
At(t) ==
    IF thr[t] = Idle THEN [k |-> "none", obj |-> "none"]
    ELSE Steps(thr[t].op)[thr[t].pc]

\* thread t enters a public call
ThreadCall ==
    /\ \E t \in Threads, op \in PublicCalls :
         /\ thr[t] = Idle
         /\ thr' = [thr EXCEPT ![t] = [op |-> op, pc |-> 1]]
    /\ UNCHANGED << serviceMutex, drain, certVars, serverVars, nsVars, configVars, openCalls,
                    rcVars, discoveryUrls, elVars, now, running, runVars,
                    phase, lastOp, lastRes, lastRet, lastArg, lastUri,
                    nsObsVars, startupCalls, reqVars >>

\* thread t executes its next step; after the last one the call returns
ThreadStep ==
    /\ \E t \in Threads :
         /\ thr[t] # Idle
         /\ At(t).k = "lock" => serviceMutex = 0       \* UA_LOCK blocks
         /\ serviceMutex' = CASE At(t).k = "lock" -> t
                              [] At(t).k = "unlock" -> 0
                              [] OTHER -> serviceMutex
         /\ thr' = [thr EXCEPT ![t] =
                      IF thr[t].pc = Len(Steps(thr[t].op)) THEN Idle
                      ELSE [thr[t] EXCEPT !.pc = @ + 1]]
    /\ UNCHANGED << drain, certVars, serverVars, nsVars, configVars, openCalls,
                    rcVars, discoveryUrls, elVars, now, running, runVars, phase,
                    lastOp, lastRes, lastRet, lastArg, lastUri, nsObsVars,
                    startupCalls, reqVars >>

NextThreads == ThreadCall \/ ThreadStep

ThreadInit ==
    /\ Init
    /\ applicationUri = "urn:app"
    /\ shutdownDelay = 0
    /\ serverUrls = << Url(FALSE, "", 0) >>
    /\ ~externalEventLoop

SpecThreads == ThreadInit /\ [][NextThreads]_vars

\* the lists the server keeps
SharedLists == {"reverseConnects", "sessions", "channels"}

\* C18: a public call mutates server-owned state only while its thread holds
\* the service mutex, and two threads are never at the same time inside an
\* access (traversal or mutation) of the reverse-connect list, the session
\* list or the channel list.
C18_MutationsUnderServiceMutex ==
    /\ \A t \in Threads : At(t).k = "write" => serviceMutex = t
    /\ \A t1, t2 \in Threads :
         (t1 # t2 /\ At(t1).k \in {"read", "write"}
            /\ At(t1).obj \in SharedLists)
           => ~(At(t2).k \in {"read", "write"} /\ At(t2).obj = At(t1).obj)

----------------------------------------------------------------------------
(* Reverse connects: attempts and state changes *)

\* the transport connections that carry entry e as their context and have
\* not been asked to close
OpenConnections(e) == {c \in conns : c.ctx = e /\ c.phase # "closing"}

\* C21: an attempt opens a connection on at most one connection manager, so
\* an entry never owns more than one open transport connection at a time.
C21_AtMostOneOpenConnection ==
    \A e \in RcIds : Cardinality(OpenConnections(e)) <= 1

\* the state changes of the entry state machine
StateChanges ==
    { << "CLOSED", "CONNECTING" >>, << "CONNECTING", "CONNECTED" >>,
      << "CONNECTING", "CLOSED" >>, << "CONNECTED", "CLOSED" >> }

\* the positions of the last step's state callbacks that carry handle h
CallbacksFor(h, cbs) == {i \in DOMAIN cbs : cbs[i].handle = h}

\* C22: the state of an entry changes only along closed -> connecting ->
\* connected and back to closed; an attempt made by addReverseConnect that
\* reaches openConnection leaves the new entry in state connecting; and a
\* step that changes the state of an entry invokes the state callback
\* exactly once for it, with the entry's handle and the new state.
C22_StateMachineAndCallbacks ==
    [][\A e \in RcIds :
         /\ rc'[e].state # rc[e].state
              => /\ << rc[e].state, rc'[e].state >> \in StateChanges
                 /\ \E i \in DOMAIN stateCallbacks' :
                      /\ CallbacksFor(rc'[e].handle, stateCallbacks') = {i}
                      /\ stateCallbacks'[i].state = rc'[e].state
         /\ (e \in Allocated' \ Allocated
               /\ lastRes' # GOODCOMPLETESASYNCHRONOUSLY)
              => /\ rc'[e].state = "CONNECTING"
                 /\ rc'[e].handle = lastRet']_vars

\* C23: removeReverseConnect with a handle no listed entry carries returns
\* not-found, leaves the list, the entries, the connections, the delayed
\* callbacks and the registration of the retry callback as they were, and
\* invokes no state callback.
C23_RemoveUnknownHandle ==
    [][ (UA_Server_removeReverseConnect
           /\ \A i \in DOMAIN reverseConnects :
                rc[reverseConnects[i]].handle # lastRet')
          => /\ lastRes' = BADNOTFOUND
             /\ UNCHANGED << reverseConnects, rc, conns, delayed,
                             reverseConnectsCheckHandle, cyclic >>
             /\ stateCallbacks' = << >> ]_vars

----------------------------------------------------------------------------
(* Listener fan-out *)

\* C24: for each server url, openConnection is called only on the tcp
\* connection managers, in event-source order, never on a manager after one
\* that returned success; the result is Good when a manager accepted and
\* internal-error when every tcp manager was asked and none accepted.  A
\* url that does not parse reaches no manager.
C24_FanOutStopsAtFirstSuccess ==
    \A u \in DOMAIN openCalls :
       LET r == openCalls[u]
           n == Len(r.calls)
       IN IF ~r.url.valid
            THEN r.calls = << >> /\ r.res = BADTCPENDPOINTURLINVALID
            ELSE /\ n <= Len(TcpOrder)
                 /\ \A k \in 1..n : r.calls[k].cm = TcpOrder[k]
                 /\ \A k \in 1..(n - 1) : r.calls[k].res # GOOD
                 /\ IF n > 0 /\ r.calls[n].res = GOOD
                      THEN r.res = GOOD
                      ELSE r.res = BADINTERNALERROR /\ n = Len(TcpOrder)

\* run_startup has opened a listener for a url on the second tcp manager
\* after the first one refused
C24_Witness ==
    /\ lastOp = "run_startup"
    /\ \E u \in DOMAIN openCalls :
         /\ openCalls[u].res = GOOD
         /\ Len(openCalls[u].calls) = 2
         /\ openCalls[u].calls[1].res # GOOD


----------------------------------------------------------------------------
(* What UA_Server_updateCertificate changes and what it leaves alone *)

\* Clients open channels and sessions, and the embedding program rotates
\* the certificate once, from any configuration
NextCertOnce ==
    \/ OpenSecureChannel
    \/ CreateSession
    \/ lastOp # "updateCertificate" /\ UA_Server_updateCertificate

\* the two certificates are interchangeable: the first policy carries certA
CertOnceInit == CertInit /\ securityPolicies[1].localCertificate = "certA"

SpecCertOnce == CertOnceInit /\ [][NextCertOnce]_vars

\* the sessions of the list that sit on channel c
SessionsOn(ss, c) == Cardinality({ i \in DOMAIN ss : ss[i].channel = c })

\* sessions and channels on a policy whose certificate is not old are
\* left as they are, and a list is only touched when its flag is set
KeepsUnbound(old, closeSessions, closeSecureChannels) ==
    /\ \A c \in DOMAIN channels :
         ChannelCert(channels[c]) # old
           => /\ channels'[c] = channels[c]
              /\ SessionsOn(sessions', c) = SessionsOn(sessions, c)
    /\ ~closeSessions => sessions' = sessions
    /\ ~closeSecureChannels => channels' = channels

\* endpoint i carried old: it carries new afterwards, and so does the policy
\* its URI selects
Rebound(i, old, new) ==
    LET sp == getSecurityPolicyByUri(securityPolicies,
                                     endpoints[i].securityPolicyUri)
    IN /\ endpoints'[i] = [endpoints[i] EXCEPT !.serverCertificate = new]
       /\ sp # 0 => securityPolicies'[sp].localCertificate = new

\* the policies no rebound endpoint selects keep their certificate
OtherPoliciesKept(old, upTo) ==
    \A p \in DOMAIN securityPolicies :
      (\A i \in 1 .. upTo :
         endpoints[i].serverCertificate = old
           => getSecurityPolicyByUri(securityPolicies,
                                     endpoints[i].securityPolicyUri) # p)
        => securityPolicies'[p] = securityPolicies[p]

\* C25 (as claimed): a call changes exactly what is bound to old: every
\* endpoint carrying old ends with new and the policy its URI selects gets
\* new, the other endpoints are unchanged, sessions and channels on another
\* certificate are not closed, and a list whose close flag is false is not
\* touched.
C25_ChangesExactlyWhatIsBoundToOld ==
    [][\A old \in Certs, new \in Certs, cs \in BOOLEAN, cc \in BOOLEAN :
       \A stop \in IF cs THEN StopPoints(old) ELSE {0} :
         updateCertificate(TRUE, old, new, cs, cc, stop)
           => /\ \A i \in DOMAIN endpoints :
                   IF endpoints[i].serverCertificate = old
                     THEN Rebound(i, old, new)
                     ELSE endpoints'[i] = endpoints[i]
              /\ KeepsUnbound(old, cs, cc)]_vars

\* C25 (amended): the endpoint part holds when the call returns Good.  A
\* call that finds an endpoint carrying old whose URI no policy carries
\* returns BadInternalError at that endpoint: the endpoints up to and
\* including it are rebound, those after it are unchanged, also the ones
\* carrying old.  Sessions and channels are treated as claimed in both cases.
C25_ChangesWhatIsBoundToOldUpToError ==
    [][\A old \in Certs, new \in Certs, cs \in BOOLEAN, cc \in BOOLEAN :
       \A stop \in IF cs THEN StopPoints(old) ELSE {0} :
         updateCertificate(TRUE, old, new, cs, cc, stop)
           => /\ \E last \in DOMAIN endpoints :
                   /\ IF lastRes' = GOOD THEN last = Len(endpoints)
                      ELSE /\ lastRes' = BADINTERNALERROR
                           /\ endpoints[last].serverCertificate = old
                           /\ getSecurityPolicyByUri(
                                securityPolicies,
                                endpoints[last].securityPolicyUri) = 0
                   /\ \A i \in 1 .. last :
                        IF endpoints[i].serverCertificate = old
                          THEN Rebound(i, old, new)
                          ELSE endpoints'[i] = endpoints[i]
                   /\ \A i \in (last + 1) .. Len(endpoints) :
                        endpoints'[i] = endpoints[i]
                   /\ OtherPoliciesKept(old, last)
              /\ KeepsUnbound(old, cs, cc)]_vars

\* a call has returned Good after closing a channel on old and rebinding the
\* first endpoint and its policy, while a channel on another certificate
\* and its session are still there and the second endpoint is as configured
C25_Witness ==
    /\ lastOp = "updateCertificate"
    /\ lastRes = GOOD
    /\ Len(channels) = 2
    /\ channels[1].state = "CLOSING"
    /\ channels[2].state = "OPEN"
    /\ sessions = << [channel |-> 2] >>
    /\ endpoints[1].serverCertificate = ChannelCert(channels[1])
    /\ endpoints[2].serverCertificate # endpoints[1].serverCertificate
    /\ ChannelCert(channels[2]) # ChannelCert(channels[1])


----------------------------------------------------------------------------
(* The drain loops of UA_Server_run_shutdown and UA_Server_delete, step by
   step, for a server without reverse connects *)

\* a drain loop that never runs the event loop
DrainStopsAtOnce(res, st) == FALSE

\* the condition of both drain loops
DrainContinues(res, st) == res = GOOD /\ st \notin {"FRESH", "STOPPED"}

\* eventLoop->stop: a started loop is stopping from now on, or stopped at
\* once when nothing is left to close; any other loop stays as it is
EventLoopStop(st) == IF st = "STARTED" THEN {"STOPPING", "STOPPED"} ELSE {st}

\* UA_Server_run_shutdown up to its drain loop
run_shutdownEnter ==
    /\ drain = NoDrain
    /\ reverseConnects = << >>
    /\ houseKeepingCallbackId' = ShutdownHouseKeepingId
    /\ startTime' = ShutdownStartTime
    /\ cyclic' = RemoveCyclicCallback(cyclic, houseKeepingCallbackId)
    /\ listeners' = 0
    /\ channels' = DeleteSecureChannels
    /\ IF externalEventLoop
         THEN /\ elState' = elState
              /\ drain' = [op |-> "run_shutdown", pc |-> "once", res |-> GOOD]
         ELSE /\ elState' \in EventLoopStop(elState)
              /\ drain' = [op |-> "run_shutdown", pc |-> "test", res |-> GOOD]
    /\ UNCHANGED << state, endTime, nsVars, configVars, openCalls, certKeep,
                    rcVars, serviceMutex, thr, discoveryUrls, elLastId, now,
                    running, runVars, phase, lastOp, lastRes, lastRet,
                    lastArg, lastUri, nsObsVars, startupCalls, reqVars >>

\* UA_Server_delete up to its drain loop, by thread 1
UA_Server_deleteEnter ==
    /\ drain = NoDrain
    /\ serviceMutex = 0
    /\ serviceMutex' = 1
    /\ channels' = DeleteSecureChannels
    /\ sessions' = << >>
    /\ namespaces' = << >>
    /\ elState' \in EventLoopStop(elState)
    /\ drain' = [op |-> "delete", pc |-> "test", res |-> GOOD]
    /\ UNCHANGED << serverVars, serverArray, configVars, openCalls, endpoints,
                    securityPolicies, rcVars, thr, discoveryUrls, cyclic,
                    elLastId, listeners, now, running, runVars, phase, lastOp,
                    lastRes, lastRet, lastArg, lastUri, nsObsVars,
                    startupCalls, reqVars >>

\* the variables no step of a drain loop changes
drainKeep == << serverVars, nsVars, configVars, openCalls, certVars, rcVars,
                thr, discoveryUrls, elLastId, listeners, running, runVars,
                phase, lastOp, lastRes, lastRet, lastArg, lastUri, nsObsVars,
                startupCalls, reqVars >>

\* the loop condition is evaluated
DrainTest ==
    /\ drain.pc = "test"
    /\ drain' = [drain EXCEPT !.pc =
                   IF ~DrainContinues(drain.res, elState) THEN "leave"
                   ELSE IF drain.op = "delete" THEN "unlock" ELSE "run"]
    /\ UNCHANGED << drainKeep, serviceMutex, elState, cyclic, now >>

\* UA_Server_delete releases the service mutex before run and takes it
\* again afterwards
DrainMutex ==
    /\ \/ /\ drain.pc = "unlock"
          /\ serviceMutex' = 0
          /\ drain' = [drain EXCEPT !.pc = "run"]
       \/ /\ drain.pc = "lock"
          /\ serviceMutex = 0
          /\ serviceMutex' = 1
          /\ drain' = [drain EXCEPT !.pc = "test"]
    /\ UNCHANGED << drainKeep, elState, cyclic, now >>

\* run(el, 100) on a loop that is stopping: it may reach stopped, and it
\* may report an error
DrainRun ==
    /\ drain.pc = "run"
    /\ elState' \in {elState, "STOPPED"}
    /\ \E res \in {GOOD, BADINTERNALERROR} :
         drain' = [drain EXCEPT !.res = res,
                                !.pc = IF drain.op = "delete" THEN "lock"
                                       ELSE "test"]
    /\ now' \in {now} \cup {t \in ClockInstants :
                              t > now /\ t <= now + 100 * UA_DATETIME_MSEC}
    /\ UNCHANGED << drainKeep, serviceMutex, cyclic >>

\* run(el, 0) on the caller's event loop
DrainOnce ==
    /\ drain.pc = "once"
    /\ cyclic' = IF elState = "STARTED" THEN ProcessCyclic(cyclic, now)
                 ELSE cyclic
    /\ drain' = [drain EXCEPT !.pc = "leave"]
    /\ UNCHANGED << drainKeep, serviceMutex, elState, now >>

\* UA_Server_run_shutdown after its drain loop
run_shutdownLeave ==
    /\ drain.op = "run_shutdown"
    /\ drain.pc = "leave"
    /\ cyclic' = RemoveCyclicCallback(cyclic, reverseConnectsCheckHandle)
    /\ reverseConnectsCheckHandle' = 0
    /\ lastOp' = "run_shutdown"
    /\ lastRes' = GOOD
    /\ phase' = "stopped"
    /\ drain' = NoDrain
    /\ UNCHANGED << serverVars, nsVars, configVars, openCalls, certVars,
                    reverseConnects, rc, lastReverseConnectHandle, delayed,
                    conns, lastConnId, rcObs, stateCallbacks, serviceMutex,
                    thr, discoveryUrls, elState, elLastId, listeners, now,
                    running, runVars, lastRet, lastArg, lastUri, nsObsVars,
                    startupCalls, reqVars >>

\* UA_Server_delete after its drain loop: the server is gone
UA_Server_deleteLeave ==
    /\ drain.op = "delete"
    /\ drain.pc = "leave"
    /\ serviceMutex' = 0
    /\ drain' = [drain EXCEPT !.op = "deleted", !.pc = "idle"]
    /\ UNCHANGED << drainKeep, elState, cyclic, now >>

DrainStep ==
    \/ DrainTest
    \/ DrainMutex
    \/ DrainRun
    \/ DrainOnce
    \/ run_shutdownLeave
    \/ UA_Server_deleteLeave

NextDrain ==
    \/ drain = NoDrain /\ UA_Server_run_startup
    \/ run_shutdownEnter
    \/ UA_Server_deleteEnter
    \/ DrainStep

SpecDrain == LifeInit /\ [][NextDrain]_vars

\* a call in progress takes its next step, and a loop that has been asked
\* to stop reaches stopped in one of the iterations run on it
FairSpecDrain ==
    SpecDrain /\ WF_vars(DrainStep) /\ SF_vars(DrainRun /\ elState' = "STOPPED")

\* C26: a drain loop of a server-owned event loop (run_shutdown) or of
\* UA_Server_delete is left only with the loop stopped or fresh or after an
\* error of run; the service mutex is free while run executes; and every
\* shutdown or delete call returns.
C26_DrainLoopsTerminate ==
    /\ []((drain.pc = "leave" /\ (drain.op = "delete" \/ ~externalEventLoop))
            => (elState \in {"STOPPED", "FRESH"} \/ drain.res # GOOD))
    /\ [](drain.pc = "run" => serviceMutex = 0)
    /\ (drain.pc # "idle") ~> (drain.pc = "idle")

\* UA_Server_delete is inside run on a loop that is still stopping, with
\* the mutex released
C26_Witness ==
    /\ drain.op = "delete"
    /\ drain.pc = "run"
    /\ elState = "STOPPING"
    /\ serviceMutex = 0
    /\ phase = "started"


----------------------------------------------------------------------------
\* C27 (as claimed): with an external event loop, when run_shutdown returns
\* no transport connection is left that holds a freed reverse-connect entry
\* as its callback context: the one iteration with a zero timeout has closed
\* every connection whose close was requested.
C27_ExternalLoopClosesFully ==
    [][(UA_Server_run_shutdown /\ externalEventLoop)
         => \A c \in conns' : rc'[c.ctx].frees = 0]_vars


----------------------------------------------------------------------------
(* Reverse connects added before the connection managers have started *)

NextRetry ==
    \/ UA_Server_addReverseConnect
    \/ RetryTick
    \/ NetworkCallback
    \/ EventLoopStart

SpecRetry == RcCallsInit /\ [][NextRetry]_vars

\* C28: an entry added while the TCP connection manager is not started gets
\* GoodCompletesAsynchronously, no connection, no state change and no state
\* callback; it is listed in state closed with the retry callback
\* registered, and a retry tick attempts every listed closed entry (with the
\* manager started by then: the entry becomes connecting and its callback
\* is invoked).
C28_NotStartedIsRetried ==
    [][\A e \in RcIds :
         /\ (e \in Allocated' \ Allocated /\ elState # "STARTED")
              => /\ lastRes' = GOODCOMPLETESASYNCHRONOUSLY
                 /\ conns' = conns
                 /\ stateCallbacks' = << >>
                 /\ rc'[e].state = "CLOSED"
                 /\ e \in Listed'
                 /\ reverseConnectsCheckHandle' \in RegisteredIds'
         /\ (RetryTick /\ e \in Listed /\ rc[e].state = "CLOSED")
              => /\ rc'[e].state = "CONNECTING"
                 /\ \E i \in DOMAIN stateCallbacks' :
                      stateCallbacks'[i] = StateCallback(rc[e], "CONNECTING")
                 /\ conns' # conns \/ rc'[e].connectionId = 0]_vars

\* the only entry was added before the manager had started and a retry tick
\* has attempted it since
C28_Witness ==
    /\ lastOp = "addReverseConnect"
    /\ lastRes = GOODCOMPLETESASYNCHRONOUSLY
    /\ Cardinality(Allocated) = 1
    /\ rc[1].state = "CONNECTING"
    /\ stateCallbacks = << [handle |-> rc[1].handle, state |-> "CONNECTING"] >>


----------------------------------------------------------------------------
\* C29 (as claimed): once run_shutdown has returned the reverse-connect list
\* is empty, no entry has been freed more than once, and no call or callback
\* has read an entry of the list that had been freed.
C29_ListEmptyAfterShutdown ==
    /\ lastOp = "run_shutdown" => reverseConnects = << >>
    /\ \A e \in RcIds : rc[e].frees <= 1
    /\ ~rcObs.dangling


----------------------------------------------------------------------------
(* addNamespace with a narrow index type *)

\* The values of the index type: UA_UInt16 has 65536; the table of the model
\* cannot grow that far, so the type is narrowed to two bits
IndexModulus == 4

\* the cast of the returned index to the narrow type
NarrowIndex(r) == [r EXCEPT !.ret = r.ret % IndexModulus]

\* UA_Server_addNamespace returning the narrow type
UA_Server_addNamespaceNarrow ==
    \E name \in NsUris, allocOk \in BOOLEAN :
       LET r == NarrowIndex(AddNamespace(namespaces, applicationUri, name,
                                         allocOk))
       IN /\ Len(r.ns) <= MaxNs
          /\ namespaces' = r.ns
          /\ lastOp' = "addNamespace"
          /\ lastArg' = name
          /\ lastRet' = r.ret
          /\ lastRes' = IF r.ok THEN GOOD ELSE BADOUTOFMEMORY
          /\ lastUri' = UA_STRING_NULL
          /\ addLog' = Logged(addLog, name, r.ret, r.ok)
          /\ UNCHANGED << serverVars, serverArray, configVars, openCalls,
                          certVars, thrVars, rcVars, discoveryUrls, elVars,
                          now, running, runVars, phase, oobRead,
                          startupCalls, reqVars >>

NextNarrow ==
    \/ UA_Server_addNamespaceNarrow
    \/ UA_Server_getNamespaceByName

SpecNarrow == NsInit /\ [][NextNarrow]_vars

\* C30 (as claimed): the index a successful addNamespace returns is the
\* slot that holds the URI, and no other URI of the table would get the
\* same index, also when the table has more slots than the index type has
\* values.
C30_ReturnedIndexIdentifiesSlot ==
    [][(lastOp' = "addNamespace" /\ lastRes' = GOOD)
         => /\ lastRet' < Len(namespaces')
            /\ namespaces'[lastRet' + 1] = lastArg'
            /\ \A j \in DOMAIN namespaces' :
                 namespaces'[j] # lastArg'
                   => NarrowIndex(AddNamespace(namespaces', applicationUri,
                                               namespaces'[j], TRUE)).ret
                        # lastRet']_vars


----------------------------------------------------------------------------
(* Listening: run_startup and run_shutdown alone *)

NextListen ==
    \/ UA_Server_run_startup
    \/ UA_Server_run_shutdown

SpecListen == LifeInit /\ [][NextListen]_vars

====
